---- MODULE Spec2Model ----
(***************************************************************************)
(* Six programs of the repository, each a state machine of its own over    *)
(* its own variables:                                                      *)
(*   day_06 (src/day_06/src/lib.rs): the grid parser Problem::from_str,    *)
(*     the walk walk_maze behind solve_part_1 and the loop check           *)
(*     walk_maze_and_check_for_loop.  A behaviour takes an input text,     *)
(*     parses it and, when a Problem comes out, runs calls of the two      *)
(*     walks on it, one loop iteration per step (Spec, SpecWalk, SpecLoop, *)
(*     SpecBothWalks).                                                     *)
(*   day_03 (src/day_03/src/lib.rs): the scanner ProgramParser and         *)
(*     solve_part_2, one instruction per step (SpecDay03); the scanner     *)
(*     behind solve_part_1 (SpecScan).                                     *)
(*   day_02 (src/day_02/src/lib.rs): Problem::from_str and solve_part_2    *)
(*     with is_safe_with_dampener, one report per step (SpecDay02).        *)
(*   day_05 (src/day_05/src/lib.rs): is_valid_ordering and fix_ordering,   *)
(*     one page per step (SpecDay05).                                      *)
(*   day_09 (src/day_09/src/lib.rs): Problem::from_str and compact_disk,   *)
(*     one entry of the disk map per step (SpecDay09).                     *)
(*   day_10 (src/day_10/src/lib.rs): Problem::from_str, score_trailhead    *)
(*     and rate_trailhead, one call per step (SpecDay10).                  *)
(***************************************************************************)
EXTENDS Integers, Sequences, FiniteSets, TLC

(***************************************************************************)
(* Bounds of the model.                                                    *)
(***************************************************************************)
\* Longest free-form input text (any characters of Alphabet).
MaxTextLen == 4
\* Largest rendered grid: height * width <= MaxCells.
MaxCells == 9
\* Most obstacles in a rendered grid.
MaxObstacles == 4

(***************************************************************************)
(* Direction and the two tables over it.                                   *)
(***************************************************************************)
Direction == {"Up", "Right", "Down", "Left"}

\* A plausible slip: the turn goes counter-clockwise.
next_direction_ccw(d) ==
    CASE d = "Up" -> "Left"
      [] d = "Left" -> "Down"
      [] d = "Down" -> "Right"
      [] d = "Right" -> "Up"

\* A plausible slip: the table turns the guard about instead of right.
next_direction_about(d) ==
    CASE d = "Up" -> "Down"
      [] d = "Right" -> "Left"
      [] d = "Down" -> "Up"
      [] d = "Left" -> "Right"

next_direction(d) ==
    CASE d = "Up" -> "Right"
      [] d = "Right" -> "Down"
      [] d = "Down" -> "Left"
      [] d = "Left" -> "Up"

\* A plausible slip: the two axes of the delta taken for one another.
get_movement_delta_transposed(d) ==
    CASE d = "Up" -> <<0, -1>>
      [] d = "Right" -> <<1, 0>>
      [] d = "Down" -> <<0, 1>>
      [] d = "Left" -> <<-1, 0>>

get_movement_delta(d) ==
    CASE d = "Up" -> <<-1, 0>>
      [] d = "Right" -> <<0, 1>>
      [] d = "Down" -> <<1, 0>>
      [] d = "Left" -> <<0, -1>>

(***************************************************************************)
(* Option<usize>: None is the empty tuple, Some(v) the one-element tuple.  *)
(* usize::checked_add_signed gives None when the sum leaves the range of   *)
(* usize; positions stay below the map size, so only the lower end of the  *)
(* range can be crossed here.                                              *)
(***************************************************************************)
None == <<>>
Some(v) == <<v>>

checked_add_signed(a, d) == IF a + d < 0 THEN None ELSE Some(a + d)

(***************************************************************************)
(* Input texts.  A text is a string; "x" stands for any character that is  *)
(* not a map symbol.                                                       *)
(***************************************************************************)
Alphabet == {".", "#", "^", "x", "\n"}

RECURSIVE Texts(_)
Texts(n) ==
    IF n = 0 THEN {""}
    ELSE LET shorter == Texts(n - 1)
         IN  shorter \cup {t \o c : t \in {u \in shorter : Len(u) = n - 1},
                                    c \in Alphabet}

\* The sample grid of the tests.
TEST_INPUT ==
    "....#.....\n" \o
    ".........#\n" \o
    "..........\n" \o
    "..#.......\n" \o
    ".......#..\n" \o
    "..........\n" \o
    ".#..^.....\n" \o
    "........#.\n" \o
    "#.........\n" \o
    "......#..."

GridCells(h, w) == (0 .. (h - 1)) \X (0 .. (w - 1))

\* The text of the h x w grid with obstacles obs and the guard at start:
\* rows of w symbols joined by line feeds, laid out like TEST_INPUT.
RECURSIVE Render(_, _, _, _, _)
Render(h, w, obs, start, k) ==
    IF k > h * (w + 1) - 2 THEN ""
    ELSE LET x == k \div (w + 1)
             y == k % (w + 1)
             c == IF y = w THEN "\n"
                  ELSE IF <<x, y>> = start THEN "^"
                  ELSE IF <<x, y>> \in obs THEN "#"
                  ELSE "."
         IN  c \o Render(h, w, obs, start, k + 1)

Shapes == {s \in (1 .. MaxCells) \X (1 .. MaxCells) : s[1] * s[2] <= MaxCells}

GridTexts ==
    UNION {UNION {{Render(s[1], s[2], o, p, 0) : p \in GridCells(s[1], s[2]) \ o} :
                  o \in {q \in SUBSET GridCells(s[1], s[2]) :
                            Cardinality(q) <= MaxObstacles}} :
           s \in Shapes}

InputTexts == Texts(MaxTextLen) \cup GridTexts \cup {TEST_INPUT}

(***************************************************************************)
(* Problem::from_str.                                                      *)
(***************************************************************************)
\* str::lines: the text split at line feeds; a final line feed ends the
\* last line and starts no empty one.  (No text of the model holds a
\* carriage return, which str::lines would strip before a line feed.)
RECURSIVE lines_from(_, _)
lines_from(s, i) ==
    IF i > Len(s) THEN <<>>
    ELSE LET ends == {j \in i .. Len(s) : SubSeq(s, j, j) = "\n"}
             e == IF ends = {} THEN Len(s) + 1
                  ELSE CHOOSE j \in ends : \A j2 \in ends : j <= j2
         IN  <<SubSeq(s, i, e - 1)>> \o lines_from(s, e + 1)

lines(s) == lines_from(s, 1)

\* A plausible slip: an unknown symbol is skipped like free space.
map_symbol_lenient(c) ==
    CASE c = "^" -> "start"
      [] c = "." -> "free"
      [] c = "#" -> "obstacle"
      [] OTHER -> "free"

\* The arms of the match on a map symbol.
map_symbol(c) ==
    CASE c = "^" -> "start"
      [] c = "." -> "free"
      [] c = "#" -> "obstacle"
      [] OTHER -> "unreachable"

\* The (x, y) of every character of the text: x the line, y the column.
TextCells(ls) ==
    UNION {{<<x, y>> : y \in 0 .. (Len(ls[x + 1]) - 1)} : x \in 0 .. (Len(ls) - 1)}

SymbolAt(ls, c) == map_symbol(SubSeq(ls[c[1] + 1], c[2] + 1, c[2] + 1))

\* A plausible slip: positions stored as (column, line).
from_str_transposed(s) ==
    LET ls == lines(s)
        cells == TextCells(ls)
        starts == {c \in cells : SymbolAt(ls, c) = "start"}
        last_start ==
            IF starts = {} THEN <<0, 0>>
            ELSE CHOOSE c \in starts :
                    \A c2 \in starts :
                        c2[1] < c[1] \/ (c2[1] = c[1] /\ c2[2] <= c[2])
    IN  IF Len(ls) = 0 THEN [kind |-> "Panic"]
        ELSE IF \E c \in cells : SymbolAt(ls, c) = "unreachable"
        THEN [kind |-> "Panic"]
        ELSE [kind |-> "Ok",
              problem |-> [map_height |-> Len(ls),
                           map_width |-> Len(ls[1]),
                           obstacles |-> {<<c[2], c[1]>> :
                                          c \in {c2 \in cells : SymbolAt(ls, c2) = "obstacle"}},
                           starting_position |-> <<last_start[2], last_start[1]>>]]

\* The outcome of from_str: a panic (unwrap of no first line, or the
\* unreachable! arm), or Ok with the Problem.  starting_position starts as
\* (0, 0) and is overwritten at every `^`, in line then column order, so
\* the last `^` wins.
from_str(s) ==
    LET ls == lines(s)
        cells == TextCells(ls)
        starts == {c \in cells : SymbolAt(ls, c) = "start"}
        last_start ==
            IF starts = {} THEN <<0, 0>>
            ELSE CHOOSE c \in starts :
                    \A c2 \in starts :
                        c2[1] < c[1] \/ (c2[1] = c[1] /\ c2[2] <= c[2])
    IN  IF Len(ls) = 0 THEN [kind |-> "Panic"]
        ELSE IF \E c \in cells : SymbolAt(ls, c) = "unreachable"
        THEN [kind |-> "Panic"]
        ELSE [kind |-> "Ok",
              problem |-> [map_height |-> Len(ls),
                           map_width |-> Len(ls[1]),
                           obstacles |-> {c \in cells : SymbolAt(ls, c) = "obstacle"},
                           starting_position |-> last_start]]

(***************************************************************************)
(* State.                                                                  *)
(***************************************************************************)
VARIABLES
    input,               \* the text handed to from_str
    pc,                  \* "start", "parse", "panicked", "parsed", or the name of
                         \* the walk that was called
    outcome,             \* "pending", "Ok" or "Panic": how from_str ended
    problem,             \* Option<Problem>: Some once from_str returned Ok
    obstacles,           \* the obstacles argument of the running call
    starting_direction,  \* the starting_direction argument of the loop check
    current_position,    \* local of both walks
    movement_direction,  \* local of both walks
    visited_spaces,      \* local of walk_maze
    collided_obstacles,  \* local of walk_maze_and_check_for_loop
    collisions,          \* count of the collision events of the running call
    returned             \* Option: Some(value) once the call has returned

\* The red-nosed reports of day_02 and the program of day_03, each a
\* program of its own with its own position.
VARIABLES
    report_text,         \* day_02: the text handed to Problem::from_str
    day_02_pc,           \* "start", "parse", "failed", "parsed", "solve_part_2"
                         \* or "panicked"
    reports,             \* day_02: Option<Vec<Vec<i32>>>, Some once from_str
                         \* returned Ok
    next_report,         \* day_02: index of the report the filter is at
    count,               \* day_02: the reports the filter has let through
    day_02_returned,     \* day_02: Option, the value solve_part_2 returned
    program,             \* day_03: Problem.program, the text
    day_03_pc,           \* "start", "ready" or "solve_part_2"
    instructions,        \* day_03: the Vec<Instruction> the parser returned
    next_instr,          \* day_03: index of the instruction the loop is at
    mul_enabled,         \* day_03: local of solve_part_2
    result,              \* day_03: local of solve_part_2
    day_03_returned      \* day_03: Option, the value solve_part_2 returned

\* The page ordering of day_05: the arguments and locals of fix_ordering.
VARIABLES
    rules,               \* day_05: the ordering rules, the pairs (a, b) of the
                         \* lines "a|b" that Problem.rules is built from
    given_update,        \* day_05: the update handed to fix_ordering
    update,              \* day_05: local of fix_ordering, the reordered copy
    pages_before_current_page,  \* day_05: local of fix_ordering
    current_page_ptr,    \* day_05: local of fix_ordering, 0-based
    day_05_pc,           \* "start", "ready" or "fix_ordering"
    day_05_returned      \* day_05: Option, the Vec fix_ordering returned

\* The disk of day_09: the text, the parsed disk map and the locals of
\* compact_disk.
VARIABLES
    disk_text,           \* day_09: the text handed to Problem::from_str
    day_09_pc,           \* "start", "parse", "failed", "parsed",
                         \* "compact_disk" or "panicked"
    disk_map,            \* day_09: Option<Vec<DiskMapEntry>>, Some once
                         \* from_str returned Ok
    next_entry,          \* day_09: index of the entry the for loop is at
    disk_image,          \* day_09: local of compact_disk
    data_blocks_rev,     \* day_09: what the iterator data_blocks_rev has left
                         \* to yield
    last_processed_file_id, \* day_09: local of compact_disk, Option<usize>
    day_09_returned      \* day_09: Option, the Vec compact_disk returned

\* The height map of day_10: the text, the parsed map and the calls of
\* score_trailhead and rate_trailhead on one starting point.
VARIABLES
    map_text,            \* day_10: the text handed to Problem::from_str
    day_10_pc,           \* "start", "parse", "failed", "parsed", "trailhead",
                         \* "scored", "rated" or "panicked"
    map,                 \* day_10: Option<Vec<Vec<u8>>>, Some once from_str returned Ok
    starting_point,      \* day_10: the argument of the two calls
    score,               \* day_10: Option, the value score_trailhead returned
    rating               \* day_10: Option, the value rate_trailhead returned

day_06_vars == <<input, pc, outcome, problem, obstacles, starting_direction,
                 current_position, movement_direction, visited_spaces,
                 collided_obstacles, collisions, returned>>

day_02_vars == <<report_text, day_02_pc, reports, next_report, count,
                 day_02_returned>>

day_03_vars == <<program, day_03_pc, instructions, next_instr, mul_enabled,
                 result, day_03_returned>>

day_05_vars == <<rules, given_update, update, pages_before_current_page,
                 current_page_ptr, day_05_pc, day_05_returned>>

day_09_vars == <<disk_text, day_09_pc, disk_map, next_entry, disk_image,
                 data_blocks_rev, last_processed_file_id, day_09_returned>>

day_10_vars == <<map_text, day_10_pc, map, starting_point, score, rating>>

vars == <<day_06_vars, day_02_vars, day_03_vars, day_05_vars,
          day_09_vars, day_10_vars>>

\* What a step of one day's program leaves alone: the other days' state.
other_days == <<day_02_vars, day_03_vars, day_05_vars, day_09_vars,
                day_10_vars>>
all_but_day_02 == <<day_06_vars, day_03_vars, day_05_vars, day_09_vars,
                    day_10_vars>>
all_but_day_03 == <<day_06_vars, day_02_vars, day_05_vars, day_09_vars,
                    day_10_vars>>
all_but_day_05 == <<day_06_vars, day_02_vars, day_03_vars, day_09_vars,
                    day_10_vars>>
all_but_day_09 == <<day_06_vars, day_02_vars, day_03_vars, day_05_vars,
                    day_10_vars>>
all_but_day_10 == <<day_06_vars, day_02_vars, day_03_vars, day_05_vars,
                    day_09_vars>>

\* The state of the other days before their input is read.
Day02Idle ==
    /\ report_text = ""
    /\ day_02_pc = "start"
    /\ reports = None
    /\ next_report = 0
    /\ count = 0
    /\ day_02_returned = None

Day03Idle ==
    /\ program = ""
    /\ day_03_pc = "start"
    /\ instructions = <<>>
    /\ next_instr = 0
    /\ mul_enabled = TRUE
    /\ result = 0
    /\ day_03_returned = None

Day05Idle ==
    /\ rules = {}
    /\ given_update = <<>>
    /\ update = <<>>
    /\ pages_before_current_page = {}
    /\ current_page_ptr = 0
    /\ day_05_pc = "start"
    /\ day_05_returned = None

Day09Idle ==
    /\ disk_text = ""
    /\ day_09_pc = "start"
    /\ disk_map = None
    /\ next_entry = 0
    /\ disk_image = <<>>
    /\ data_blocks_rev = <<>>
    /\ last_processed_file_id = None
    /\ day_09_returned = None

Day10Idle ==
    /\ map_text = ""
    /\ day_10_pc = "start"
    /\ map = None
    /\ starting_point = <<0, 0>>
    /\ score = None
    /\ rating = None

\* The locals and arguments of a call, while no call is running.
NoCall ==
    /\ obstacles = {}
    /\ starting_direction = "Up"
    /\ current_position = <<0, 0>>
    /\ movement_direction = "Up"
    /\ visited_spaces = {}
    /\ collided_obstacles = {}
    /\ collisions = 0
    /\ returned = None

Init ==
    /\ input = ""
    /\ pc = "start"
    /\ outcome = "pending"
    /\ problem = None
    /\ NoCall
    /\ Day02Idle
    /\ Day03Idle
    /\ Day05Idle
    /\ Day09Idle
    /\ Day10Idle

P == problem[1]

\* The call of f is in its loop; the call of f has returned.
Running(f) == pc = f /\ returned = None
Returned(f) == pc = f /\ returned # None

(***************************************************************************)
(* The run is given its input text.                                        *)
(***************************************************************************)
ReadInput ==
    /\ pc = "start"
    /\ input' \in InputTexts
    /\ pc' = "parse"
    /\ UNCHANGED other_days
    /\ UNCHANGED <<outcome, problem, obstacles, starting_direction,
                   current_position, movement_direction, visited_spaces,
                   collided_obstacles, collisions, returned>>

(***************************************************************************)
(* text.parse(): the run goes on with the Problem, or ends in the panic.   *)
(***************************************************************************)
Parse ==
    /\ pc = "parse"
    /\ LET r == from_str(input)
       IN  /\ outcome' = r.kind
           /\ problem' = IF r.kind = "Ok" THEN Some(r.problem) ELSE None
           /\ pc' = IF r.kind = "Ok" THEN "parsed" ELSE "panicked"
    /\ UNCHANGED other_days
    /\ UNCHANGED <<input, obstacles, starting_direction, current_position,
                   movement_direction, visited_spaces, collided_obstacles,
                   collisions, returned>>

(***************************************************************************)
(* The step both walks share: the cell in front of the guard.              *)
(***************************************************************************)
\* (next_x, next_y) as the pair of Options the if-let matches on.
NextCell(pos, d) ==
    LET movement_delta == get_movement_delta(d)
    IN  <<checked_add_signed(pos[1], movement_delta[1]),
          checked_add_signed(pos[2], movement_delta[2])>>

\* A plausible slip: the bound compared with > for >=.
out_of_map_off_by_one(next_x, next_y, map_height, map_width) ==
    next_x > map_height \/ next_y > map_width

out_of_map(next_x, next_y, map_height, map_width) ==
    next_x >= map_height \/ next_y >= map_width

\* Either break of the loop: an Option is None, or the cell is out of map.
LeavesMap(pos, d) ==
    LET n == NextCell(pos, d)
    IN  IF n[1] = None \/ n[2] = None THEN TRUE
        ELSE out_of_map(n[1][1], n[2][1], P.map_height, P.map_width)

\* The cell in front, when LeavesMap is false.
Ahead(pos, d) == LET n == NextCell(pos, d) IN <<n[1][1], n[2][1]>>

(***************************************************************************)
(* walk_maze, called by solve_part_1.                                      *)
(***************************************************************************)
\* A plausible slip: the set starts empty, HashSet::new().
visited_from_empty(starting_position) == {}

\* HashSet::from([*starting_position])
initial_visited(starting_position) == {starting_position}

solve_part_1 ==
    /\ pc = "parsed"
    /\ pc' = "walk_maze"
    /\ obstacles' = P.obstacles
    /\ visited_spaces' = initial_visited(P.starting_position)
    /\ current_position' = P.starting_position
    /\ movement_direction' = "Up"
    /\ UNCHANGED other_days
    /\ UNCHANGED <<input, outcome, problem, starting_direction,
                   collided_obstacles, collisions, returned>>

WalkMazeBreak ==
    /\ Running("walk_maze")
    /\ LeavesMap(current_position, movement_direction)
    /\ returned' = Some(Cardinality(visited_spaces))
    /\ UNCHANGED other_days
    /\ UNCHANGED <<input, pc, outcome, problem, obstacles, starting_direction,
                   current_position, movement_direction, visited_spaces,
                   collided_obstacles, collisions>>

WalkMazeRotate ==
    /\ Running("walk_maze")
    /\ ~LeavesMap(current_position, movement_direction)
    /\ Ahead(current_position, movement_direction) \in obstacles
    /\ movement_direction' = next_direction(movement_direction)
    /\ UNCHANGED other_days
    /\ UNCHANGED <<input, pc, outcome, problem, obstacles, starting_direction,
                   current_position, visited_spaces, collided_obstacles,
                   collisions, returned>>

\* A plausible slip: the cell left is inserted, not the cell entered.
WalkMazeMove_stale ==
    /\ Running("walk_maze")
    /\ ~LeavesMap(current_position, movement_direction)
    /\ Ahead(current_position, movement_direction) \notin obstacles
    /\ current_position' = Ahead(current_position, movement_direction)
    /\ visited_spaces' = visited_spaces \cup {current_position}
    /\ UNCHANGED other_days
    /\ UNCHANGED <<input, pc, outcome, problem, obstacles, starting_direction,
                   movement_direction, collided_obstacles, collisions,
                   returned>>

WalkMazeMove ==
    /\ Running("walk_maze")
    /\ ~LeavesMap(current_position, movement_direction)
    /\ Ahead(current_position, movement_direction) \notin obstacles
    /\ current_position' = Ahead(current_position, movement_direction)
    /\ visited_spaces' = visited_spaces \cup {current_position'}
    /\ UNCHANGED other_days
    /\ UNCHANGED <<input, pc, outcome, problem, obstacles, starting_direction,
                   movement_direction, collided_obstacles, collisions,
                   returned>>

(***************************************************************************)
(* walk_maze_and_check_for_loop, called as the test calls it: on the       *)
(* parsed obstacles, or on a clone of them with one cell inserted.         *)
(***************************************************************************)
\* The cells the test inserts.
ProbeCells == {<<6, 3>>, <<7, 6>>, <<7, 7>>, <<8, 1>>, <<8, 3>>, <<9, 7>>}

\* A plausible slip: the log is looked up by cell, the facing forgotten.
is_repeated_any_facing(log, next_x, next_y, d) ==
    \E e \in Direction : <<next_x, next_y, e>> \in log

\* collided_obstacles.contains(&(next_x, next_y, movement_direction))
is_repeated_collision(log, next_x, next_y, d) == <<next_x, next_y, d>> \in log

\* collided_obstacles.insert((next_x, next_y, movement_direction))
store_collision(log, next_x, next_y, d) == log \cup {<<next_x, next_y, d>>}

\* A plausible slip: the cell is inserted into the Problem's own obstacles,
\* not into a clone of them.
check_for_loop_in_place(d, probe) ==
    /\ pc = "parsed"
    /\ probe \subseteq (ProbeCells \cap GridCells(P.map_height, P.map_width))
    /\ Cardinality(probe) <= 1
    /\ pc' = "walk_maze_and_check_for_loop"
    /\ problem' = Some([P EXCEPT !.obstacles = @ \cup probe])
    /\ obstacles' = P.obstacles \cup probe
    /\ starting_direction' = d
    /\ collided_obstacles' = {}
    /\ current_position' = P.starting_position
    /\ movement_direction' = d
    /\ UNCHANGED other_days
    /\ UNCHANGED <<input, outcome, visited_spaces, collisions, returned>>

\* A plausible slip: the walk starts facing Up whatever facing it is given.
check_for_loop_facing_up(d, probe) ==
    /\ pc = "parsed"
    /\ probe \subseteq (ProbeCells \cap GridCells(P.map_height, P.map_width))
    /\ Cardinality(probe) <= 1
    /\ pc' = "walk_maze_and_check_for_loop"
    /\ obstacles' = P.obstacles \cup probe
    /\ starting_direction' = d
    /\ collided_obstacles' = {}
    /\ current_position' = P.starting_position
    /\ movement_direction' = "Up"
    /\ UNCHANGED other_days
    /\ UNCHANGED <<input, outcome, problem, visited_spaces, collisions,
                   returned>>

check_for_loop(d, probe) ==
    /\ pc = "parsed"
    /\ probe \subseteq (ProbeCells \cap GridCells(P.map_height, P.map_width))
    /\ Cardinality(probe) <= 1
    /\ pc' = "walk_maze_and_check_for_loop"
    /\ obstacles' = P.obstacles \cup probe
    /\ starting_direction' = d
    /\ collided_obstacles' = {}
    /\ current_position' = P.starting_position
    /\ movement_direction' = d
    /\ UNCHANGED other_days
    /\ UNCHANGED <<input, outcome, problem, visited_spaces, collisions,
                   returned>>

LoopCheckBreak ==
    /\ Running("walk_maze_and_check_for_loop")
    /\ LeavesMap(current_position, movement_direction)
    /\ returned' = Some(FALSE)
    /\ UNCHANGED other_days
    /\ UNCHANGED <<input, pc, outcome, problem, obstacles, starting_direction,
                   current_position, movement_direction, visited_spaces,
                   collided_obstacles, collisions>>

LoopCheckRepeat ==
    /\ Running("walk_maze_and_check_for_loop")
    /\ ~LeavesMap(current_position, movement_direction)
    /\ LET n == Ahead(current_position, movement_direction)
       IN  /\ n \in obstacles
           /\ is_repeated_collision(collided_obstacles, n[1], n[2],
                                    movement_direction)
    /\ collisions' = collisions + 1
    /\ returned' = Some(TRUE)
    /\ UNCHANGED other_days
    /\ UNCHANGED <<input, pc, outcome, problem, obstacles, starting_direction,
                   current_position, movement_direction, visited_spaces,
                   collided_obstacles>>

\* A plausible slip: the collision is never stored.
LoopCheckRotate_unlogged ==
    /\ Running("walk_maze_and_check_for_loop")
    /\ ~LeavesMap(current_position, movement_direction)
    /\ LET n == Ahead(current_position, movement_direction)
       IN  /\ n \in obstacles
           /\ ~is_repeated_collision(collided_obstacles, n[1], n[2],
                                     movement_direction)
    /\ collisions' = collisions + 1
    /\ movement_direction' = next_direction(movement_direction)
    /\ UNCHANGED other_days
    /\ UNCHANGED <<input, pc, outcome, problem, obstacles, starting_direction,
                   current_position, visited_spaces, returned,
                   collided_obstacles>>

\* A plausible slip: the loop check turns counter-clockwise.
LoopCheckRotate_ccw ==
    /\ Running("walk_maze_and_check_for_loop")
    /\ ~LeavesMap(current_position, movement_direction)
    /\ LET n == Ahead(current_position, movement_direction)
       IN  /\ n \in obstacles
           /\ ~is_repeated_collision(collided_obstacles, n[1], n[2],
                                     movement_direction)
           /\ collided_obstacles' =
                  store_collision(collided_obstacles, n[1], n[2],
                                  movement_direction)
    /\ collisions' = collisions + 1
    /\ movement_direction' = next_direction_ccw(movement_direction)
    /\ UNCHANGED other_days
    /\ UNCHANGED <<input, pc, outcome, problem, obstacles, starting_direction,
                   current_position, visited_spaces, returned>>

LoopCheckRotate ==
    /\ Running("walk_maze_and_check_for_loop")
    /\ ~LeavesMap(current_position, movement_direction)
    /\ LET n == Ahead(current_position, movement_direction)
       IN  /\ n \in obstacles
           /\ ~is_repeated_collision(collided_obstacles, n[1], n[2],
                                     movement_direction)
           /\ collided_obstacles' =
                  store_collision(collided_obstacles, n[1], n[2],
                                  movement_direction)
    /\ collisions' = collisions + 1
    /\ movement_direction' = next_direction(movement_direction)
    /\ UNCHANGED other_days
    /\ UNCHANGED <<input, pc, outcome, problem, obstacles, starting_direction,
                   current_position, visited_spaces, returned>>

LoopCheckMove ==
    /\ Running("walk_maze_and_check_for_loop")
    /\ ~LeavesMap(current_position, movement_direction)
    /\ Ahead(current_position, movement_direction) \notin obstacles
    /\ current_position' = Ahead(current_position, movement_direction)
    /\ UNCHANGED other_days
    /\ UNCHANGED <<input, pc, outcome, problem, obstacles, starting_direction,
                   movement_direction, visited_spaces, collided_obstacles,
                   collisions, returned>>

(***************************************************************************)
(* The search of part 2.  lib.rs holds no caller of the loop check but its *)
(* test; the caller is the usage pattern of the specification (4.4, 6):    *)
(* every free cell but the start is inserted into a clone of the obstacle  *)
(* set, the loop check runs on the clone from the start facing Up, and the *)
(* cells for which it returns true are counted.                            *)
(***************************************************************************)
\* A plausible slip: inserting a cell that is there takes it out.
insert_toggle(set, c) == IF c \in set THEN set \ {c} ELSE set \cup {c}

\* HashSet::insert, as the test calls it on the clone.
insert(set, c) == set \cup {c}

\* The loop of walk_maze_and_check_for_loop run from (pos, d) with the
\* collisions of log to its return value.
RECURSIVE loop_from(_, _, _, _)
loop_from(pos, d, log, obs) ==
    IF LeavesMap(pos, d) THEN FALSE
    ELSE LET n == Ahead(pos, d)
         IN  IF n \in obs
             THEN IF is_repeated_collision(log, n[1], n[2], d) THEN TRUE
                  ELSE loop_from(pos, next_direction(d),
                                 store_collision(log, n[1], n[2], d), obs)
             ELSE loop_from(n, d, log, obs)

\* A call of walk_maze_and_check_for_loop as one value.
walk_maze_and_check_for_loop(obs, starting_position, d) ==
    loop_from(starting_position, d, {}, obs)

Candidates ==
    GridCells(P.map_height, P.map_width) \ (P.obstacles \cup {P.starting_position})

solve_part_2 ==
    /\ pc = "parsed"
    /\ pc' = "solve_part_2"
    /\ returned' =
          Some(Cardinality({c \in Candidates :
                  walk_maze_and_check_for_loop(insert(P.obstacles, c),
                                               P.starting_position, "Up")}))
    /\ UNCHANGED other_days
    /\ UNCHANGED <<input, outcome, problem, obstacles, starting_direction,
                   current_position, movement_direction, visited_spaces,
                   collided_obstacles, collisions>>

(***************************************************************************)
(* The caller has read the returned value: the call's locals are dropped   *)
(* and the Problem is there for the next call.                             *)
(***************************************************************************)
Discard ==
    /\ returned # None
    /\ pc' = "parsed"
    /\ obstacles' = {}
    /\ starting_direction' = "Up"
    /\ current_position' = <<0, 0>>
    /\ movement_direction' = "Up"
    /\ visited_spaces' = {}
    /\ collided_obstacles' = {}
    /\ collisions' = 0
    /\ returned' = None
    /\ UNCHANGED other_days
    /\ UNCHANGED <<input, outcome, problem>>

(***************************************************************************)
(* Specifications.                                                         *)
(***************************************************************************)
Next ==
    \/ ReadInput
    \/ Parse
    \/ solve_part_1
    \/ WalkMazeBreak
    \/ WalkMazeRotate
    \/ WalkMazeMove
    \/ \E d \in Direction, probe \in SUBSET ProbeCells : check_for_loop(d, probe)
    \/ LoopCheckBreak
    \/ LoopCheckRepeat
    \/ LoopCheckRotate
    \/ LoopCheckMove
    \/ solve_part_2
    \/ Discard

Spec == Init /\ [][Next]_vars

\* The runs of solve_part_1 alone.  The program is sequential and nothing
\* suspends it: while the loop of walk_maze has an iteration to run, it
\* runs it.
WalkMazeStep == WalkMazeBreak \/ WalkMazeRotate \/ WalkMazeMove

NextWalk ==
    \/ ReadInput
    \/ Parse
    \/ solve_part_1
    \/ WalkMazeBreak
    \/ WalkMazeRotate
    \/ WalkMazeMove
    \/ Discard

SpecWalk == Init /\ [][NextWalk]_vars /\ WF_vars(WalkMazeStep)

\* All runs, the loop of walk_maze_and_check_for_loop running on in the
\* same way while it has an iteration to run.
LoopCheckStep ==
    LoopCheckBreak \/ LoopCheckRepeat \/ LoopCheckRotate \/ LoopCheckMove

SpecLoop == Init /\ [][Next]_vars /\ WF_vars(LoopCheckStep)

(***************************************************************************)
(* The Movement Model as the specification states it, over whole cells     *)
(* and signed coordinates: the yardstick the walks are measured against.   *)
(***************************************************************************)
UnitVector == [d \in Direction |->
                 CASE d = "Up" -> <<-1, 0>>
                   [] d = "Right" -> <<0, 1>>
                   [] d = "Down" -> <<1, 0>>
                   [] d = "Left" -> <<0, -1>>]

Clockwise == [d \in Direction |->
                CASE d = "Up" -> "Right"
                  [] d = "Right" -> "Down"
                  [] d = "Down" -> "Left"
                  [] d = "Left" -> "Up"]

CellAhead(pos, d) == <<pos[1] + UnitVector[d][1], pos[2] + UnitVector[d][2]>>

OnGrid(c, h, w) == c[1] >= 0 /\ c[1] < h /\ c[2] >= 0 /\ c[2] < w

\* TRUE when the guard in state (pos, d) steps off the grid within fuel
\* further steps of the model.
RECURSIVE GuardExits(_, _, _, _, _, _)
GuardExits(pos, d, obs, h, w, fuel) ==
    LET c == CellAhead(pos, d)
    IN  IF ~OnGrid(c, h, w) THEN TRUE
        ELSE IF fuel = 0 THEN FALSE
        ELSE IF c \in obs THEN GuardExits(pos, Clockwise[d], obs, h, w, fuel - 1)
        ELSE GuardExits(c, d, obs, h, w, fuel - 1)

\* The cells the guard occupies from (pos, d) on, until it steps off the
\* grid or the fuel is spent.
RECURSIVE GuardCells(_, _, _, _, _, _)
GuardCells(pos, d, obs, h, w, fuel) ==
    LET c == CellAhead(pos, d)
    IN  IF ~OnGrid(c, h, w) \/ fuel = 0 THEN {pos}
        ELSE IF c \in obs
        THEN {pos} \cup GuardCells(pos, Clockwise[d], obs, h, w, fuel - 1)
        ELSE {pos} \cup GuardCells(c, d, obs, h, w, fuel - 1)

\* An on-grid guard has at most height * width * 4 (position, facing)
\* states, and its next state is a function of its state: a guard still on
\* the grid after that many steps has repeated a state and never leaves.
StateCount == P.map_height * P.map_width * 4

ExitsFrom(d) ==
    GuardExits(P.starting_position, d, obstacles, P.map_height, P.map_width,
               StateCount)

StartOnGrid == OnGrid(P.starting_position, P.map_height, P.map_width)

\* The grid texts of the specification's parser contract: one or more
\* lines of one length >= 1 over `.`, `#`, `^`, holding exactly one `^`.
SymbolsOf(s) == {i \in 1 .. Len(s) : SubSeq(s, i, i) # "\n"}
StartMarkers(s) == {i \in 1 .. Len(s) : SubSeq(s, i, i) = "^"}
HasUnknownSymbol(s) ==
    \E i \in SymbolsOf(s) : SubSeq(s, i, i) \notin {".", "#", "^"}
Rectangular(s) ==
    LET ls == lines(s)
    IN  \A i, j \in 1 .. Len(ls) : Len(ls[i]) = Len(ls[j])
ValidGrid(s) ==
    /\ Len(lines(s)) >= 1
    /\ Len(lines(s)[1]) >= 1
    /\ Rectangular(s)
    /\ ~HasUnknownSymbol(s)
    /\ Cardinality(StartMarkers(s)) = 1

(***************************************************************************)
(* Claims.                                                                 *)
(***************************************************************************)
LoopCheck == "walk_maze_and_check_for_loop"

\* C1: for every grid, obstacle set, on-grid start and starting facing,
\* walk_maze_and_check_for_loop returns, true exactly when the guard of
\* the Movement Model never leaves the grid, and false exactly when it
\* eventually steps off.
C1_LoopVerdictExact ==
    /\ [](Running(LoopCheck) /\ StartOnGrid => <>Returned(LoopCheck))
    /\ []((Returned(LoopCheck) /\ StartOnGrid)
              => returned = Some(~ExitsFrom(starting_direction)))

C1_Witness ==
    /\ Returned(LoopCheck)
    /\ StartOnGrid
    /\ input # TEST_INPUT
    /\ starting_direction = "Left"
    /\ returned = Some(TRUE)
    /\ ~ExitsFrom("Left")

\* C2, as claimed: on every valid grid a call of walk_maze eventually
\* returns.
C2_WalkMazeTerminates ==
    (pc = "walk_maze" /\ ValidGrid(input)) ~> (returned # None)

\* C2, amended: on every valid grid from which the guard, facing Up,
\* eventually steps off, a call of walk_maze eventually returns; on a grid
\* that holds the guard in a loop it never returns.
C2_WalkMazeTerminatesIffGuardExits ==
    /\ (pc = "walk_maze" /\ ValidGrid(input) /\ ExitsFrom("Up"))
           ~> (returned # None)
    /\ []((pc = "walk_maze" /\ ValidGrid(input) /\ ~ExitsFrom("Up"))
              => returned = None)

C2_Witness ==
    /\ Returned("walk_maze")
    /\ ValidGrid(input)
    /\ input # TEST_INPUT
    /\ movement_direction = "Down"
    /\ Cardinality(visited_spaces) >= 4

\* C3: in every run of walk_maze_and_check_for_loop the number of collision
\* events is at most height * width * 4 + 1.
C3_CollisionBound ==
    pc = LoopCheck => collisions <= P.map_height * P.map_width * 4 + 1

C3_Witness ==
    /\ Returned(LoopCheck)
    /\ returned = Some(TRUE)
    /\ collisions = Cardinality(collided_obstacles) + 1
    /\ collisions >= 5

\* C4: when walk_maze returns, its value is the number of distinct cells
\* the guard of the Movement Model occupies from the start cell (included)
\* until it steps off the grid, facing Up at the start; on the sample grid
\* of the test it is 41.
C4_CountsDistinctCells ==
    Returned("walk_maze")
        => /\ returned = Some(Cardinality(
                  GuardCells(P.starting_position, "Up", obstacles,
                             P.map_height, P.map_width, StateCount)))
           /\ input = TEST_INPUT => returned = Some(41)

C4_Witness ==
    /\ Returned("walk_maze")
    /\ input = TEST_INPUT
    /\ returned = Some(41)

\* C5: for a valid grid the value walk_maze returns is at least 1 and at
\* most height * width.
C5_CountWithinGrid ==
    (Returned("walk_maze") /\ ValidGrid(input))
        => (returned[1] >= 1 /\ returned[1] <= P.map_height * P.map_width)

C5_Witness ==
    /\ Returned("walk_maze")
    /\ ValidGrid(input)
    /\ P.map_height * P.map_width >= 3
    /\ returned = Some(P.map_height * P.map_width)

\* C6: on the sample grid, the guard starting at (6, 4) facing Up,
\* walk_maze_and_check_for_loop returns false on the parsed obstacles and
\* true with any one of the six cells of the test added.
C6_SampleProbes ==
    (Returned(LoopCheck) /\ input = TEST_INPUT /\ starting_direction = "Up")
        => /\ P.starting_position = <<6, 4>>
           /\ obstacles = P.obstacles => returned = Some(FALSE)
           /\ \A c \in ProbeCells :
                  obstacles = P.obstacles \cup {c} => returned = Some(TRUE)

C6_Witness ==
    /\ Returned(LoopCheck)
    /\ input = TEST_INPUT
    /\ starting_direction = "Up"
    /\ obstacles = P.obstacles \cup {<<9, 7>>}
    /\ returned = Some(TRUE)

\* C7: in both walks, a step of the Movement Model taken with an on-grid
\* obstacle in front of the guard leaves the position as it is and turns
\* the facing one step on in the cycle Up, Right, Down, Left, Up.  The one
\* iteration with an obstacle ahead that applies no movement is the loop
\* check's return of true on a collision it has logged: the call ends
\* there, the guard where it was.
ObstacleAhead ==
    LET c == CellAhead(current_position, movement_direction)
    IN  OnGrid(c, P.map_height, P.map_width) /\ c \in obstacles

LoggedCollisionAhead ==
    LET c == CellAhead(current_position, movement_direction)
    IN  <<c[1], c[2], movement_direction>> \in collided_obstacles

C7_TurningRule ==
    [][((Running("walk_maze") \/ Running(LoopCheck)) /\ ObstacleAhead)
          => /\ current_position' = current_position
             /\ IF pc = LoopCheck /\ LoggedCollisionAhead
                THEN returned' = Some(TRUE)
                ELSE /\ returned' = None
                     /\ movement_direction' = Clockwise[movement_direction]]_vars

C7_Witness ==
    /\ Running("walk_maze")
    /\ movement_direction = "Left"
    /\ ObstacleAhead

\* C8: parsing a text with no `^`, or with more than one, fails and gives
\* no Problem.
C8_StartMarkerRequired ==
    (pc \notin {"start", "parse"} /\ Cardinality(StartMarkers(input)) # 1)
        => (outcome # "Ok" /\ problem = None)

\* C9: parsing a text whose rows differ in length fails: no Problem comes
\* out of it and no walk runs on it.
C9_RectangleRequired ==
    (pc \notin {"start", "parse"} /\ ~Rectangular(input))
        => (outcome # "Ok" /\ problem = None /\ pc = "panicked")

\* C10: parsing a text in which a line holds a character other than `.`,
\* `#` or `^` fails: the outcome is never a Problem.
C10_UnknownSymbolFails ==
    (pc \notin {"start", "parse"} /\ HasUnknownSymbol(input))
        => (outcome # "Ok" /\ problem = None /\ pc = "panicked")

C10_Witness ==
    /\ pc = "panicked"
    /\ HasUnknownSymbol(input)
    /\ Cardinality(StartMarkers(input)) = 1
    /\ Len(lines(input)) = 2

\* The text read directly, without splitting it into lines: the width is
\* the length up to the first line feed, a row takes width + 1 characters,
\* and a line feed that ends the text starts no row.
TextWidth(s) ==
    LET feeds == {i \in 1 .. Len(s) : SubSeq(s, i, i) = "\n"}
    IN  IF feeds = {} THEN Len(s)
        ELSE (CHOOSE i \in feeds : \A j \in feeds : i <= j) - 1
TextHeight(s) ==
    Cardinality({i \in 1 .. (Len(s) - 1) : SubSeq(s, i, i) = "\n"}) + 1
CharAt(s, c) ==
    LET i == c[1] * (TextWidth(s) + 1) + c[2] + 1
    IN  SubSeq(s, i, i)

\* C11: for a rectangular grid text over `.`, `#`, `^` with exactly one
\* `^`, the parser succeeds and returns map_height = the number of lines,
\* map_width = the number of characters of a line, obstacles = exactly the
\* (row, column) cells holding `#`, and starting_position = the cell holding
\* `^`, which is not in the obstacle set; on the ten-line sample that is
\* 10 by 10, start (6, 4), with (0, 4) an obstacle.
C11_ParserReadsGrid ==
    (pc \notin {"start", "parse"} /\ ValidGrid(input))
        => /\ outcome = "Ok"
           /\ P.map_height = TextHeight(input)
           /\ P.map_width = TextWidth(input)
           /\ P.obstacles = {c \in GridCells(TextHeight(input), TextWidth(input)) :
                                CharAt(input, c) = "#"}
           /\ OnGrid(P.starting_position, TextHeight(input), TextWidth(input))
           /\ CharAt(input, P.starting_position) = "^"
           /\ P.starting_position \notin P.obstacles
           /\ input = TEST_INPUT
                 => /\ P.map_height = 10 /\ P.map_width = 10
                    /\ P.starting_position = <<6, 4>>
                    /\ <<0, 4>> \in P.obstacles
                    /\ <<6, 4>> \notin P.obstacles

\* A parsed grid of more than one row and column with obstacles, whose
\* guard stands off the diagonal.
C11_Witness ==
    /\ pc = "parsed"
    /\ ValidGrid(input)
    /\ input # TEST_INPUT
    /\ P.map_height = 2 /\ P.map_width = 3
    /\ Cardinality(P.obstacles) = 2
    /\ P.starting_position = <<1, 2>>

\* One step of the Movement Model on a guard state <<cell, facing>>; the
\* guard that has stepped off the grid is <<>>, and stays so.
GuardStep(s, obs, h, w) ==
    LET c == CellAhead(s[1], s[2])
    IN  IF ~OnGrid(c, h, w) THEN <<>>
        ELSE IF c \in obs THEN <<s[1], Clockwise[s[2]]>>
        ELSE <<c, s[2]>>

\* The guard state 2^k steps after s.
RECURSIVE GuardAfter(_, _, _, _, _)
GuardAfter(s, obs, h, w, k) ==
    IF s = <<>> THEN <<>>
    ELSE IF k = 0 THEN GuardStep(s, obs, h, w)
    ELSE GuardAfter(GuardAfter(s, obs, h, w, k - 1), obs, h, w, k - 1)

\* The least k with 2^k >= n.
RECURSIVE Doublings(_)
Doublings(n) == IF n <= 1 THEN 0 ELSE 1 + Doublings((n + 1) \div 2)

\* The guard started in (pos, d) is on the grid after at least
\* height * width * 4 steps, so never leaves it.
GuardStays(pos, d, obs, h, w) ==
    GuardAfter(<<pos, d>>, obs, h, w, Doublings(h * w * 4)) # <<>>

\* C12: the part-2 output for a valid guard grid is the number of distinct
\* free cells other than the start for which the guard, started at the
\* start facing Up with that one cell added as an obstacle, never leaves
\* the grid; every candidate is judged on the parsed obstacle set plus that
\* cell alone, and the parsed obstacle set is as it was read.
C12_CountsLoopingCandidates ==
    (Returned("solve_part_2") /\ ValidGrid(input))
        => /\ returned =
                Some(Cardinality(
                    {c \in GridCells(P.map_height, P.map_width) :
                        /\ c \notin P.obstacles
                        /\ c # P.starting_position
                        /\ GuardStays(P.starting_position, "Up",
                                      P.obstacles \cup {c}, P.map_height,
                                      P.map_width)}))
           /\ P.obstacles = {c \in GridCells(TextHeight(input), TextWidth(input)) :
                                CharAt(input, c) = "#"}

\* The search has counted several cells on the sample grid.
C12_Witness ==
    /\ Returned("solve_part_2")
    /\ input = TEST_INPUT
    /\ returned[1] = Cardinality(ProbeCells)

\* C13: the loop check honours its starting_direction, whichever of Up,
\* Right, Down, Left it is.  The call begins at the start cell in the given
\* facing; its first iteration attempts the cell ahead of the start in that
\* facing (off the grid: the call returns false; an obstacle: the guard
\* turns clockwise from that facing; free: the guard is there, facing as
\* given); and on an on-grid start the returned value is true exactly when
\* the guard started in that (position, facing) never leaves the grid.
AtFirstIteration ==
    /\ Running(LoopCheck)
    /\ current_position = P.starting_position
    /\ movement_direction = starting_direction
    /\ collided_obstacles = {}

C13_HonoursStartingDirection ==
    /\ [][(pc = "parsed" /\ pc' = LoopCheck)
             => /\ starting_direction' \in Direction
                /\ current_position' = P.starting_position
                /\ movement_direction' = starting_direction']_vars
    /\ [][AtFirstIteration
             => LET c == CellAhead(P.starting_position, starting_direction)
                IN  IF ~OnGrid(c, P.map_height, P.map_width)
                    THEN returned' = Some(FALSE)
                    ELSE IF c \in obstacles
                    THEN /\ current_position' = P.starting_position
                         /\ movement_direction' = Clockwise[starting_direction]
                    ELSE /\ current_position' = c
                         /\ movement_direction' = starting_direction]_vars
    /\ []((Returned(LoopCheck) /\ StartOnGrid)
             => returned = Some(GuardStays(P.starting_position, starting_direction,
                                           obstacles, P.map_height, P.map_width)))

\* A call given Down has returned false on obstacles that hold the guard
\* facing Up in a loop.
C13_Witness ==
    /\ Returned(LoopCheck)
    /\ StartOnGrid
    /\ starting_direction = "Down"
    /\ returned = Some(FALSE)
    /\ ~ExitsFrom("Up")

InWalk == pc \in {"walk_maze", LoopCheck}

C16_WalksLeaveGridAlone ==
    /\ [][problem # None => problem' = problem]_vars
    /\ [][(InWalk /\ pc' = pc) => obstacles' = obstacles]_vars
    /\ [][(pc = "parsed" /\ pc' = "walk_maze")
             => /\ visited_spaces' = {P.starting_position}
                /\ obstacles' = P.obstacles]_vars
    /\ [][(pc = "parsed" /\ pc' = LoopCheck)
             => /\ collided_obstacles' = {}
                /\ P.obstacles \subseteq obstacles'
                /\ Cardinality(obstacles' \ P.obstacles) <= 1]_vars
    /\ []((InWalk /\ ValidGrid(input))
             => P.obstacles = {c \in GridCells(TextHeight(input), TextWidth(input)) :
                                  CharAt(input, c) = "#"})

\* A probe on a copy with a cell inserted has run into obstacles and
\* returned.
C16_Witness ==
    /\ Returned(LoopCheck)
    /\ obstacles # P.obstacles
    /\ collided_obstacles # {}
    /\ current_position # P.starting_position

\* C17: throughout a call of walk_maze the visited set holds the start
\* cell and the guard's current cell, no step takes a cell out of it, a
\* step that moves the guard leaves the entered cell in it, and the value
\* returned is the size of the set when the loop is left.
C17_VisitedSetGrows ==
    /\ [](pc = "walk_maze"
             => /\ P.starting_position \in visited_spaces
                /\ current_position \in visited_spaces)
    /\ [][(pc = "walk_maze" /\ pc' = "walk_maze")
             => /\ visited_spaces \subseteq visited_spaces'
                /\ current_position' # current_position
                      => /\ current_position' \in visited_spaces'
                         /\ visited_spaces' = visited_spaces \cup {current_position'}]_vars
    /\ [](Returned("walk_maze") => returned = Some(Cardinality(visited_spaces)))

\* The guard has moved onto a cell it had visited before, and onto new ones.
C17_Witness ==
    /\ Running("walk_maze")
    /\ Cardinality(visited_spaces) >= 3
    /\ current_position = P.starting_position
    /\ movement_direction # "Up"

\* C18: in both walks, when the call's start is a cell of the grid that is
\* not an obstacle, the guard's position is always a cell of the grid
\* (0 <= row < height, 0 <= column < width) that is not an obstacle; an
\* iteration whose target cell is outside the grid ends the walk with the
\* guard where it was.
StartIsFreeCell ==
    /\ StartOnGrid
    /\ P.starting_position \notin obstacles

C18_GuardStaysOnFreeCells ==
    /\ []((InWalk /\ StartIsFreeCell)
             => /\ current_position[1] >= 0
                /\ current_position[1] < P.map_height
                /\ current_position[2] >= 0
                /\ current_position[2] < P.map_width
                /\ current_position \notin obstacles)
    /\ [][(InWalk /\ returned = None /\ StartIsFreeCell
              /\ ~OnGrid(CellAhead(current_position, movement_direction),
                         P.map_height, P.map_width))
             => /\ returned' # None
                /\ current_position' = current_position]_vars

\* The guard of the loop check has walked to the grid's last row, facing
\* Down: the cell ahead is outside the grid.
C18_Witness ==
    /\ Running(LoopCheck)
    /\ StartIsFreeCell
    /\ movement_direction = "Down"
    /\ current_position[1] = P.map_height - 1
    /\ current_position # P.starting_position

(***************************************************************************)
(* day_03 (src/day_03/src/lib.rs): the scanner ProgramParser and the loop  *)
(* of solve_part_2 over the instructions it returns, one instruction per   *)
(* step.  The Peekable<Chars> iterator over the text s is the index of its *)
(* next character.                                                         *)
(***************************************************************************)
MaxFragments == 4

\* Pieces of program text: the three instructions and corrupted ones.
Fragments ==
    {"do()", "don't()", "mul(2,4)", "mul(11,8)", "mul[3,7]", "undo()",
     "mul(32,64]"}

RECURSIVE FragmentTexts(_)
FragmentTexts(n) ==
    IF n = 0 THEN {""}
    ELSE LET shorter == FragmentTexts(n - 1)
         IN  shorter \cup {t \o f : t \in shorter, f \in Fragments}

\* The programs of the two tests.
TEST_PROGRAM_1 ==
    "xmul(2,4)%&mul[3,7]!@^do_not_mul(5,5)+mul(32,64]then(mul(11,8)mul(8,5))"
TEST_PROGRAM_2 ==
    "xmul(2,4)&mul[3,7]!^don't()_mul(5,5)+mul(32,64](mul(11,8)undo()?mul(8,5))"

ProgramTexts == FragmentTexts(MaxFragments) \cup {TEST_PROGRAM_1, TEST_PROGRAM_2}

\* Instruction: Do, Dont and Mul(a, b); a and b are 0 where there are none.
Do == [op |-> "Do", a |-> 0, b |-> 0]
Dont == [op |-> "Dont", a |-> 0, b |-> 0]
Mul(a, b) == [op |-> "Mul", a |-> a, b |-> b]

\* iterator.peek(): the character at i, "" for None.
peek(s, i) == IF i <= Len(s) THEN SubSeq(s, i, i) ELSE ""

\* The clone of the iterator has read lit from i on, one peek per character.
RECURSIVE reads(_, _, _)
reads(s, i, lit) ==
    IF lit = "" THEN TRUE
    ELSE /\ peek(s, i) = SubSeq(lit, 1, 1)
         /\ reads(s, i + 1, SubSeq(lit, 2, Len(lit)))

\* parse_do, parse_dont, parse_mul: whether the text was there, and the
\* iterator after the call (moved past the text only when it was there).
parse_do(s, i) ==
    IF reads(s, i, "do()") THEN [ok |-> TRUE, at |-> i + 4]
    ELSE [ok |-> FALSE, at |-> i]

parse_dont(s, i) ==
    IF reads(s, i, "don't()") THEN [ok |-> TRUE, at |-> i + 7]
    ELSE [ok |-> FALSE, at |-> i]

parse_mul(s, i) ==
    IF reads(s, i, "mul") THEN [ok |-> TRUE, at |-> i + 3]
    ELSE [ok |-> FALSE, at |-> i]

is_ascii_digit(c) ==
    c \in {"0", "1", "2", "3", "4", "5", "6", "7", "8", "9"}

\* digits.parse::<u64>() of a string of decimal digits.
DigitValue ==
    [c \in {"0", "1", "2", "3", "4", "5", "6", "7", "8", "9"} |->
        CASE c = "0" -> 0 [] c = "1" -> 1 [] c = "2" -> 2 [] c = "3" -> 3
          [] c = "4" -> 4 [] c = "5" -> 5 [] c = "6" -> 6 [] c = "7" -> 7
          [] c = "8" -> 8 [] c = "9" -> 9]

RECURSIVE parse_u64(_)
parse_u64(digits) ==
    IF digits = "" THEN 0
    ELSE 10 * parse_u64(SubSeq(digits, 1, Len(digits) - 1))
         + DigitValue[SubSeq(digits, Len(digits), Len(digits))]

\* A plausible slip: parse_number takes up to four digits.
parse_number_four_digits(s, i) ==
    LET n == IF ~is_ascii_digit(peek(s, i)) THEN 0
             ELSE IF ~is_ascii_digit(peek(s, i + 1)) THEN 1
             ELSE IF ~is_ascii_digit(peek(s, i + 2)) THEN 2
             ELSE IF ~is_ascii_digit(peek(s, i + 3)) THEN 3
             ELSE 4
    IN  [value |-> IF n = 0 THEN None ELSE Some(parse_u64(SubSeq(s, i, i + n - 1))),
         at |-> i + n]

\* parse_number: up to three digits are taken; None when there is none.
parse_number(s, i) ==
    LET n == IF ~is_ascii_digit(peek(s, i)) THEN 0
             ELSE IF ~is_ascii_digit(peek(s, i + 1)) THEN 1
             ELSE IF ~is_ascii_digit(peek(s, i + 2)) THEN 2
             ELSE 3
    IN  [value |-> IF n = 0 THEN None ELSE Some(parse_u64(SubSeq(s, i, i + n - 1))),
         at |-> i + n]

\* The arm of parse after parse_mul returned true, the iterator at j: what
\* is pushed (nothing or one Mul) and the iterator after it.  Whatever was
\* read before the attempt failed stays read.
mul_arguments(s, j) ==
    IF peek(s, j) # "(" THEN [push |-> <<>>, at |-> j]
    ELSE LET a == parse_number(s, j + 1)
         IN  IF a.value = None THEN [push |-> <<>>, at |-> a.at]
             ELSE IF peek(s, a.at) # "," THEN [push |-> <<>>, at |-> a.at]
             ELSE LET b == parse_number(s, a.at + 1)
                  IN  IF b.value = None THEN [push |-> <<>>, at |-> b.at]
                      ELSE IF peek(s, b.at) # ")"
                      THEN [push |-> <<>>, at |-> b.at]
                      ELSE [push |-> <<Mul(a.value[1], b.value[1])>>,
                            at |-> b.at + 1]

\* The while loop of parse from the iterator at i.
RECURSIVE parse_from(_, _)
parse_from(s, i) ==
    IF peek(s, i) = "" THEN <<>>
    ELSE IF parse_do(s, i).ok THEN <<Do>> \o parse_from(s, parse_do(s, i).at)
    ELSE IF parse_dont(s, i).ok
    THEN <<Dont>> \o parse_from(s, parse_dont(s, i).at)
    ELSE IF parse_mul(s, i).ok
    THEN LET m == mul_arguments(s, parse_mul(s, i).at)
         IN  m.push \o parse_from(s, m.at)
    ELSE parse_from(s, i + 1)

\* ProgramParser::new(program).parse()
parse(s) == parse_from(s, 1)

\* solve_part_1: the sum of a * b over the Mul of the parsed program.
RECURSIVE sum_of_mul(_)
sum_of_mul(instrs) ==
    IF instrs = <<>> THEN 0
    ELSE (IF Head(instrs).op = "Mul" THEN Head(instrs).a * Head(instrs).b ELSE 0)
         + sum_of_mul(Tail(instrs))

day_03_solve_part_1(p) == sum_of_mul(parse(p))

ReadProgram ==
    /\ day_03_pc = "start"
    /\ program' \in ProgramTexts
    /\ day_03_pc' = "ready"
    /\ UNCHANGED <<instructions, next_instr, mul_enabled, result,
                   day_03_returned>>
    /\ UNCHANGED all_but_day_03

\* solve_part_2 up to its loop.
day_03_solve_part_2 ==
    /\ day_03_pc = "ready"
    /\ day_03_pc' = "solve_part_2"
    /\ instructions' = parse(program)
    /\ mul_enabled' = TRUE
    /\ result' = 0
    /\ next_instr' = 1
    /\ UNCHANGED <<program, day_03_returned>>
    /\ UNCHANGED all_but_day_03

\* The loop has an instruction to run.
AtInstr(op) ==
    /\ day_03_pc = "solve_part_2"
    /\ day_03_returned = None
    /\ next_instr <= Len(instructions)
    /\ instructions[next_instr].op = op

\* A plausible slip: Do leaves mul_enabled as it is.
InstrDo_no_effect ==
    /\ AtInstr("Do")
    /\ next_instr' = next_instr + 1
    /\ UNCHANGED <<program, day_03_pc, instructions, mul_enabled, result,
                   day_03_returned>>
    /\ UNCHANGED all_but_day_03

InstrDo ==
    /\ AtInstr("Do")
    /\ mul_enabled' = TRUE
    /\ next_instr' = next_instr + 1
    /\ UNCHANGED <<program, day_03_pc, instructions, result, day_03_returned>>
    /\ UNCHANGED all_but_day_03

InstrDont ==
    /\ AtInstr("Dont")
    /\ mul_enabled' = FALSE
    /\ next_instr' = next_instr + 1
    /\ UNCHANGED <<program, day_03_pc, instructions, result, day_03_returned>>
    /\ UNCHANGED all_but_day_03

InstrMul ==
    /\ AtInstr("Mul")
    /\ result' = IF mul_enabled
                 THEN result + instructions[next_instr].a * instructions[next_instr].b
                 ELSE result
    /\ next_instr' = next_instr + 1
    /\ UNCHANGED <<program, day_03_pc, instructions, mul_enabled,
                   day_03_returned>>
    /\ UNCHANGED all_but_day_03

\* The loop is through: solve_part_2 returns result.
Day03Return ==
    /\ day_03_pc = "solve_part_2"
    /\ day_03_returned = None
    /\ next_instr > Len(instructions)
    /\ day_03_returned' = Some(result)
    /\ UNCHANGED <<program, day_03_pc, instructions, next_instr, mul_enabled,
                   result>>
    /\ UNCHANGED all_but_day_03

NextDay03 ==
    \/ ReadProgram
    \/ day_03_solve_part_2
    \/ InstrDo
    \/ InstrDont
    \/ InstrMul
    \/ Day03Return

SpecDay03 == Init /\ [][NextDay03]_vars

\* The instructions of program order before position k that switch
\* multiplication, and whether the last of them, if any, switches it on.
SwitchesBefore(k) ==
    {j \in 1 .. (k - 1) : instructions[j].op \in {"Do", "Dont"}}

OnBefore(k) ==
    \/ SwitchesBefore(k) = {}
    \/ instructions[CHOOSE j \in SwitchesBefore(k) :
                        \A j2 \in SwitchesBefore(k) : j2 <= j].op = "Do"

\* What the instruction at k is to add.
Adds(k) ==
    IF instructions[k].op = "Mul" /\ OnBefore(k)
    THEN instructions[k].a * instructions[k].b
    ELSE 0

RECURSIVE AddedUpTo(_)
AddedUpTo(k) == IF k = 0 THEN 0 ELSE AddedUpTo(k - 1) + Adds(k)

InPart2 == day_03_pc = "solve_part_2"

\* C19: in solve_part_2 of day_03 multiplication is enabled at the start;
\* mul_enabled is at every instruction what the most recent Do or Dont
\* before it in program order left (on when there is none); a Mul(a, b)
\* adds a * b exactly when that is on, and Do, Dont and a Mul that is off
\* add nothing; so the value returned is the sum over the enabled Mul, is
\* never more than solve_part_1 gives on the same program, and is 48 on the
\* program of the test.
C19_MulFollowsLastSwitch ==
    /\ [][(day_03_pc = "ready" /\ day_03_pc' = "solve_part_2")
             => (mul_enabled' = TRUE /\ result' = 0)]_vars
    /\ []((InPart2 /\ next_instr <= Len(instructions))
             => (mul_enabled = OnBefore(next_instr)))
    /\ [][(InPart2 /\ next_instr' = next_instr + 1)
             => result' = result + Adds(next_instr)]_vars
    /\ []((InPart2 /\ day_03_returned # None)
             => /\ day_03_returned = Some(AddedUpTo(Len(instructions)))
                /\ day_03_returned[1] <= day_03_solve_part_1(program)
                /\ program = TEST_PROGRAM_2 => day_03_returned = Some(48))

\* A program whose Mul between Dont and Do was left out and whose Mul after
\* the Do was added has returned less than part 1 gives.
C19_Witness ==
    /\ InPart2
    /\ day_03_returned # None
    /\ \E i, j, k, l \in 1 .. Len(instructions) :
          /\ i < j /\ j < k /\ k < l
          /\ instructions[i].op = "Dont"
          /\ instructions[j].op = "Mul"
          /\ instructions[k].op = "Do"
          /\ instructions[l].op = "Mul"
    /\ day_03_returned[1] > 0
    /\ day_03_returned[1] < day_03_solve_part_1(program)

(***************************************************************************)
(* day_02 (src/day_02/src/lib.rs): Problem::from_str, is_safe,             *)
(* is_safe_with_dampener and the filter of solve_part_2, one report per    *)
(* step.  A slice index out of bounds is a panic; a function that can      *)
(* panic gives an Option<bool>, None for the panic.                        *)
(***************************************************************************)
MaxLevel == 5

MaxLevels == 3

MaxReports == 2

\* i32::to_string of a level.
RECURSIVE to_string(_)
to_string(n) ==
    IF n < 10 THEN SubSeq("0123456789", n + 1, n + 1)
    ELSE to_string(n \div 10) \o to_string(n % 10)

RECURSIVE Join(_, _)
Join(strs, sep) ==
    IF Len(strs) = 0 THEN ""
    ELSE IF Len(strs) = 1 THEN strs[1]
    ELSE strs[1] \o sep \o Join(Tail(strs), sep)

\* The lines of levels the model writes its texts from: none to MaxLevels
\* levels of 1 .. MaxLevel.
Records == UNION {[1 .. n -> 1 .. MaxLevel] : n \in 0 .. MaxLevels}

RenderRecord(r) == Join([i \in 1 .. Len(r) |-> to_string(r[i])], " ")

RenderReports(rs) == Join([i \in 1 .. Len(rs) |-> RenderRecord(rs[i])], "\n")

DAY_02_TEST_INPUT ==
    Join(<<"7 6 4 2 1", "1 2 7 8 9", "9 7 6 2 1", "1 3 2 4 5", "8 6 4 4 1",
           "1 3 6 7 9">>, "\n")

ReportTexts ==
    {RenderReports(rs) : rs \in UNION {[1 .. n -> Records] : n \in 0 .. MaxReports}}
        \cup {DAY_02_TEST_INPUT, "1 x", "1  2\n3 2 "}

\* str::split_ascii_whitespace of a line: the runs of characters between
\* spaces (the texts of the model hold no other whitespace within a line).
RECURSIVE split_from(_, _)
split_from(l, i) ==
    IF i > Len(l) THEN <<>>
    ELSE IF SubSeq(l, i, i) = " " THEN split_from(l, i + 1)
    ELSE LET spaces == {j \in i .. Len(l) : SubSeq(l, j, j) = " "}
             e == IF spaces = {} THEN Len(l) + 1
                  ELSE CHOOSE j \in spaces : \A j2 \in spaces : j <= j2
         IN  <<SubSeq(l, i, e - 1)>> \o split_from(l, e)

split_ascii_whitespace(l) == split_from(l, 1)

\* str::parse::<i32> of a token: Some(value) of a run of digits, None (the
\* Err) of anything else.  (No token of the model holds a sign or leaves
\* the range of i32.)
parse_i32(tok) ==
    IF \A j \in 1 .. Len(tok) : is_ascii_digit(SubSeq(tok, j, j))
    THEN Some(parse_u64(tok))
    ELSE None

\* Problem::from_str: Err when a token is no number or a line has fewer
\* than two of them, else Ok with the reports, one per line.
day_02_from_str(s) ==
    LET ls == lines(s)
        tokens == [i \in 1 .. Len(ls) |-> split_ascii_whitespace(ls[i])]
        parsed == [i \in 1 .. Len(ls) |->
                      [j \in 1 .. Len(tokens[i]) |-> parse_i32(tokens[i][j])]]
    IN  IF \E i \in 1 .. Len(ls) : \E j \in 1 .. Len(parsed[i]) : parsed[i][j] = None
        THEN [kind |-> "Err"]
        ELSE IF \E i \in 1 .. Len(ls) : ~(Len(parsed[i]) > 1)
        THEN [kind |-> "Err"]
        ELSE [kind |-> "Ok",
              reports |-> [i \in 1 .. Len(ls) |->
                              [j \in 1 .. Len(parsed[i]) |-> parsed[i][j][1]]]]

\* is_safe: record[0] < record[1] indexes the slice, so a slice of fewer
\* than two levels is the panic.
is_safe(record) ==
    IF Len(record) < 2 THEN None
    ELSE LET increasing == record[1] < record[2]
         IN  Some(\A k \in 1 .. (Len(record) - 1) :
                     LET diff == record[k] - record[k + 1]
                     IN  \/ (increasing /\ diff \in (-3) .. (-1))
                         \/ (~increasing /\ diff \in 1 .. 3))

\* [&record[0..skip_idx], &record[(skip_idx + 1)..]].concat()
without(record, skip_idx) ==
    SubSeq(record, 1, skip_idx) \o SubSeq(record, skip_idx + 2, Len(record))

\* The for loop of is_safe_with_dampener from skip_idx on.
RECURSIVE dampener_from(_, _)
dampener_from(record, skip_idx) ==
    IF skip_idx >= Len(record) THEN Some(FALSE)
    ELSE LET r == is_safe(without(record, skip_idx))
         IN  IF r = None THEN None
             ELSE IF r[1] THEN Some(TRUE)
             ELSE dampener_from(record, skip_idx + 1)

is_safe_with_dampener(record) ==
    LET r == is_safe(record)
    IN  IF r = None THEN None
        ELSE IF r[1] THEN Some(TRUE)
        ELSE dampener_from(record, 0)

ReadReports ==
    /\ day_02_pc = "start"
    /\ report_text' \in ReportTexts
    /\ day_02_pc' = "parse"
    /\ UNCHANGED <<reports, next_report, count, day_02_returned>>
    /\ UNCHANGED all_but_day_02

\* text.parse(): the run goes on with the Problem, or ends with the Err.
Day02Parse ==
    /\ day_02_pc = "parse"
    /\ LET r == day_02_from_str(report_text)
       IN  /\ reports' = IF r.kind = "Ok" THEN Some(r.reports) ELSE None
           /\ day_02_pc' = IF r.kind = "Ok" THEN "parsed" ELSE "failed"
    /\ UNCHANGED <<report_text, next_report, count, day_02_returned>>
    /\ UNCHANGED all_but_day_02

\* solve_part_2 up to the first report of reports.iter().
day_02_solve_part_2 ==
    /\ day_02_pc = "parsed"
    /\ day_02_pc' = "solve_part_2"
    /\ next_report' = 1
    /\ count' = 0
    /\ UNCHANGED <<report_text, reports, day_02_returned>>
    /\ UNCHANGED all_but_day_02

\* The filter has a report to look at.
AtReport ==
    /\ day_02_pc = "solve_part_2"
    /\ day_02_returned = None
    /\ next_report <= Len(reports[1])

\* filter(|report| is_safe_with_dampener(report)).count(), one report.
FilterReport ==
    /\ AtReport
    /\ LET r == is_safe_with_dampener(reports[1][next_report])
       IN  /\ r # None
           /\ count' = IF r[1] THEN count + 1 ELSE count
    /\ next_report' = next_report + 1
    /\ UNCHANGED <<report_text, day_02_pc, reports, day_02_returned>>
    /\ UNCHANGED all_but_day_02

\* is_safe_with_dampener panics on the report: the run ends there.
FilterPanic ==
    /\ AtReport
    /\ is_safe_with_dampener(reports[1][next_report]) = None
    /\ day_02_pc' = "panicked"
    /\ UNCHANGED <<report_text, reports, next_report, count, day_02_returned>>
    /\ UNCHANGED all_but_day_02

\* The reports are through: solve_part_2 returns the count.
Day02Return ==
    /\ day_02_pc = "solve_part_2"
    /\ day_02_returned = None
    /\ next_report > Len(reports[1])
    /\ day_02_returned' = Some(count)
    /\ UNCHANGED <<report_text, day_02_pc, reports, next_report, count>>
    /\ UNCHANGED all_but_day_02

NextDay02 ==
    \/ ReadReports
    \/ Day02Parse
    \/ day_02_solve_part_2
    \/ FilterReport
    \/ FilterPanic
    \/ Day02Return

SpecDay02 == Init /\ [][NextDay02]_vars

\* A report as the puzzle judges it: the levels all rise or all fall, each
\* by one to three; and a report the dampener lets through: safe as it
\* stands, or safe with some one level taken out.
Safe(r) ==
    \/ \A k \in 1 .. (Len(r) - 1) : r[k + 1] - r[k] \in 1 .. 3
    \/ \A k \in 1 .. (Len(r) - 1) : r[k] - r[k + 1] \in 1 .. 3

LevelTakenOut(r, k) == [j \in 1 .. (Len(r) - 1) |-> IF j < k THEN r[j] ELSE r[j + 1]]

SafeWithDampener(r) ==
    Safe(r) \/ \E k \in 1 .. Len(r) : Safe(LevelTakenOut(r, k))

\* C20: for every report the parser accepts (two levels or more)
\* is_safe_with_dampener returns a boolean, true exactly when the report is
\* safe as it stands or becomes safe with exactly one level removed, and
\* solve_part_2 returns the number of such reports: no run of solve_part_2
\* on parsed reports ends in a panic, the filter's count is the number of
\* such reports among those it has looked at, and the value returned is
\* their number among all.
C20_DampenerCountsTolerableReports ==
    /\ day_02_pc # "panicked"
    /\ day_02_pc = "solve_part_2"
          => count = Cardinality({i \in 1 .. (next_report - 1) :
                                     SafeWithDampener(reports[1][i])})
    /\ day_02_returned # None
          => day_02_returned =
               Some(Cardinality({i \in 1 .. Len(reports[1]) :
                                    SafeWithDampener(reports[1][i])}))

(***************************************************************************)
(* day_05 (src/day_05/src/lib.rs): the page ordering.  An update is a      *)
(* sequence of pages; rules is the set of pairs (a, b) of the lines "a|b", *)
(* page a to be printed before page b.                                     *)
(***************************************************************************)
\* Pages of the enumerated updates are 1..MaxPage.
MaxPage == 3
\* Longest enumerated update.
MaxUpdateLen == 3

Pages == 1..MaxPage

Updates == UNION {[1..n -> Pages] : n \in 0..MaxUpdateLen}

RuleSets == SUBSET (Pages \X Pages)

\* The rules and the three unordered updates of the tests' TEST_INPUT.
DAY_05_TEST_RULES ==
    {<<47, 53>>, <<97, 13>>, <<97, 61>>, <<97, 47>>, <<75, 29>>, <<61, 13>>,
     <<75, 53>>, <<29, 13>>, <<97, 29>>, <<53, 29>>, <<61, 53>>, <<97, 53>>,
     <<61, 29>>, <<47, 13>>, <<75, 47>>, <<97, 75>>, <<47, 61>>, <<75, 61>>,
     <<47, 29>>, <<75, 13>>, <<53, 13>>}

DAY_05_TEST_UPDATES ==
    {<<75, 47, 61, 53, 29>>, <<97, 61, 53, 29, 13>>, <<75, 29, 13>>,
     <<75, 97, 47, 61, 53>>, <<61, 13, 29>>, <<97, 13, 75, 29, 47>>}

\* rules.get(page): the HashMap of from_str holds a key for every page that
\* stands left of a "|", with the set of the pages right of it.
rules_get(rs, page) ==
    IF \E r \in rs : r[1] = page
    THEN Some({r[2] : r \in {q \in rs : q[1] = page}})
    ELSE None

\* The pages of u before the 1-based position i.
PagesBefore(u, i) == {u[j] : j \in 1..(i - 1)}

\* is_valid_ordering: false at the first page that some rule wants before a
\* page already seen.
is_valid_ordering(u, rs) ==
    \A i \in 1..Len(u) :
        \/ rules_get(rs, u[i]) = None
        \/ PagesBefore(u, i) \cap rules_get(rs, u[i])[1] = {}

\* get_middle_page: update[update.len().div_ceil(2) - 1], 0-based.
get_middle_page(u) == u[((Len(u) + 1) \div 2)]

\* The orders in which the iterator of a HashSet may hand out its elements.
Orderings(S) ==
    {s \in [1..Cardinality(S) -> S] : \A i, j \in 1..Cardinality(S) :
                                          s[i] = s[j] => i = j}

(***************************************************************************)
(* The call is given its rules and its update.                             *)
(***************************************************************************)
ReadPages ==
    /\ day_05_pc = "start"
    /\ \/ /\ rules' \in RuleSets
          /\ given_update' \in Updates
       \/ /\ rules' = DAY_05_TEST_RULES
          /\ given_update' \in DAY_05_TEST_UPDATES
    /\ day_05_pc' = "ready"
    /\ UNCHANGED <<update, pages_before_current_page, current_page_ptr,
                   day_05_returned>>
    /\ UNCHANGED all_but_day_05

(***************************************************************************)
(* fix_ordering, up to its loop.                                           *)
(***************************************************************************)
fix_ordering ==
    /\ day_05_pc = "ready"
    /\ pages_before_current_page' = {}
    /\ update' = given_update
    /\ current_page_ptr' = 0
    /\ day_05_pc' = "fix_ordering"
    /\ UNCHANGED <<rules, given_update, day_05_returned>>
    /\ UNCHANGED all_but_day_05

InFixLoop ==
    /\ day_05_pc = "fix_ordering"
    /\ day_05_returned = None
    /\ current_page_ptr < Len(update)

\* update[current_page_ptr]
current_page == update[current_page_ptr + 1]

\* pages_before_current_page.intersection(rule)
pages_that_must_be_moved_after_current_page ==
    pages_before_current_page \cap rules_get(rules, current_page)[1]

\* One iteration for a page no rule names on its left.
FixNoRule ==
    /\ InFixLoop
    /\ rules_get(rules, current_page) = None
    /\ pages_before_current_page' = pages_before_current_page \cup {current_page}
    /\ current_page_ptr' = current_page_ptr + 1
    /\ UNCHANGED <<rules, given_update, update, day_05_pc, day_05_returned>>
    /\ UNCHANGED all_but_day_05

\* One iteration for a page with a rule and nothing to move.
FixKeep ==
    /\ InFixLoop
    /\ rules_get(rules, current_page) # None
    /\ pages_that_must_be_moved_after_current_page = {}
    /\ pages_before_current_page' = pages_before_current_page \cup {current_page}
    /\ current_page_ptr' = current_page_ptr + 1
    /\ UNCHANGED <<rules, given_update, update, day_05_pc, day_05_returned>>
    /\ UNCHANGED all_but_day_05

\* One iteration that moves pages: the current page takes the place of the
\* count_of_pages_to_move pages left of it, the pages to move follow it in
\* the order the HashSet hands them out.
FixMove ==
    /\ InFixLoop
    /\ rules_get(rules, current_page) # None
    /\ pages_that_must_be_moved_after_current_page # {}
    /\ LET to_move == pages_that_must_be_moved_after_current_page
           count_of_pages_to_move == Cardinality(to_move)
       IN /\ current_page_ptr >= count_of_pages_to_move
          /\ \E moved \in Orderings(to_move) :
                update' =
                    SubSeq(update, 1, current_page_ptr - count_of_pages_to_move)
                    \o <<current_page>> \o moved
                    \o SubSeq(update, current_page_ptr + 2, Len(update))
          /\ pages_before_current_page' =
                (pages_before_current_page \cup {current_page}) \ to_move
          /\ current_page_ptr' = current_page_ptr - (count_of_pages_to_move - 1)
    /\ UNCHANGED <<rules, given_update, day_05_pc, day_05_returned>>
    /\ UNCHANGED all_but_day_05

\* The loop is left and the update returned.
FixReturn ==
    /\ day_05_pc = "fix_ordering"
    /\ day_05_returned = None
    /\ current_page_ptr >= Len(update)
    /\ day_05_returned' = Some(update)
    /\ UNCHANGED <<rules, given_update, update, pages_before_current_page,
                   current_page_ptr, day_05_pc>>
    /\ UNCHANGED all_but_day_05

FixStep == FixNoRule \/ FixKeep \/ FixMove \/ FixReturn

NextDay05 == ReadPages \/ fix_ordering \/ FixStep

\* The loop of fix_ordering keeps running while it can.
SpecDay05 == Init /\ [][NextDay05]_vars /\ WF_vars(FixStep)

\* current_page_ptr - count_of_pages_to_move never drops below 0.
Day05NoUnderflow ==
    (InFixLoop /\ rules_get(rules, current_page) # None)
        => current_page_ptr >= Cardinality(pages_that_must_be_moved_after_current_page)

(***************************************************************************)
(* The yardstick of the page ordering.                                     *)
(***************************************************************************)
\* How often page p occurs in u.
Occurrences(u, p) == Cardinality({i \in 1..Len(u) : u[i] = p})

\* v holds the pages of u, each as often as u does.
SamePages(u, v) ==
    /\ Len(u) = Len(v)
    /\ \A i \in 1..Len(u) : Occurrences(u, u[i]) = Occurrences(v, u[i])

\* The pages of u can be printed in an order that breaks no rule of rs.
Sortable(u, rs) ==
    \E f \in Orderings(1..Len(u)) :
        is_valid_ordering([i \in 1..Len(u) |-> u[f[i]]], rs)

\* C21: whatever the update and the rules, the Vec fix_ordering returns holds
\* the pages of the update, each as often as the update does, in an order
\* that is_valid_ordering accepts under the same rules.
C21_FixOrderingSortsTheUpdate ==
    day_05_returned # None =>
        /\ SamePages(given_update, day_05_returned[1])
        /\ is_valid_ordering(day_05_returned[1], rules)

\* The same for the updates that have an order breaking no rule; the returned
\* Vec fails this too.
FixOrderingSortsSortableUpdates ==
    (day_05_returned # None /\ Sortable(given_update, rules)) =>
        /\ SamePages(given_update, day_05_returned[1])
        /\ is_valid_ordering(day_05_returned[1], rules)

\* The three unordered updates of TEST_INPUT come back ordered, with the
\* middle pages test_fix_ordering expects.
FixOrderingOnTestInput ==
    (day_05_returned # None /\ rules = DAY_05_TEST_RULES) =>
        /\ SamePages(given_update, day_05_returned[1])
        /\ is_valid_ordering(day_05_returned[1], rules)
        /\ given_update = <<75, 97, 47, 61, 53>>
              => get_middle_page(day_05_returned[1]) = 47
        /\ given_update = <<61, 13, 29>>
              => get_middle_page(day_05_returned[1]) = 29
        /\ given_update = <<97, 13, 75, 29, 47>>
              => get_middle_page(day_05_returned[1]) = 47

\* C26: whatever the update and the rules, a call of fix_ordering returns:
\* its page pointer reaches the end of the update, also when the rules relate
\* two pages of the update in both directions.
C26_FixOrderingTerminates ==
    (day_05_pc = "fix_ordering") ~> (day_05_returned # None)

\* The rules relate no pages in a circle: some page of every non-empty set of
\* pages is to be printed after no other page of the set.
Acyclic(rs) ==
    \A S \in SUBSET ({r[1] : r \in rs} \cup {r[2] : r \in rs}) :
        S # {} => \E p \in S : \A q \in S : <<q, p>> \notin rs

\* Under rules that relate no pages in a circle the call returns.
FixOrderingTerminatesUnderAcyclicRules ==
    (day_05_pc = "fix_ordering" /\ Acyclic(rules)) ~> (day_05_returned # None)

(***************************************************************************)
(* day_09 (src/day_09/src/lib.rs): the disk map and compact_disk.  A disk  *)
(* map is a Vec of entries, File{id, length} at the even indices and       *)
(* FreeSpace(length) at the odd ones; a disk image is a Vec of file ids.   *)
(***************************************************************************)
\* Longest enumerated disk text.
MaxDiskLen == 5

DiskAlphabet == {"0", "1", "2", "3", "x", "\n"}

RECURSIVE DiskTextsOf(_)
DiskTextsOf(n) ==
    IF n = 0 THEN {""}
    ELSE LET shorter == DiskTextsOf(n - 1)
         IN  shorter \cup {t \o c : t \in {u \in shorter : Len(u) = n - 1},
                                    c \in DiskAlphabet}

TEST_INPUT_1 == "12345"
TEST_INPUT_2 == "2333133121414131402"

DiskTexts == DiskTextsOf(MaxDiskLen) \cup {TEST_INPUT_1, TEST_INPUT_2}

File(id, length) == <<"File", id, length>>
FreeSpace(length) == <<"FreeSpace", length>>

is_whitespace(c) == c \in {" ", "\n"}

\* s.trim(): the text without the white space at its two ends.
RECURSIVE trim(_)
trim(s) ==
    IF s = "" THEN s
    ELSE IF is_whitespace(SubSeq(s, 1, 1)) THEN trim(SubSeq(s, 2, Len(s)))
    ELSE IF is_whitespace(SubSeq(s, Len(s), Len(s)))
         THEN trim(SubSeq(s, 1, Len(s) - 1))
    ELSE s

\* c.to_digit(10)
to_digit(c) == IF is_ascii_digit(c) THEN Some(DigitValue[c]) ELSE None

\* Problem::from_str: Some(disk_map), or None for Err.  The character at the
\* 0-based index i is a File of id i / 2 when i is even, a FreeSpace when odd.
day_09_from_str(s) ==
    LET t == trim(s) IN
    IF \E k \in 1..Len(t) : to_digit(SubSeq(t, k, k)) = None THEN None
    ELSE Some([k \in 1..Len(t) |->
                  LET length == to_digit(SubSeq(t, k, k))[1]
                      i == k - 1
                  IN  IF i % 2 = 0 THEN File(i \div 2, length)
                      ELSE FreeSpace(length)])

\* vec![id; length]
repeat_take(id, length) == [k \in 1..length |-> id]

\* data_blocks_rev before anything is taken from it: the blocks of the files,
\* last file first.
RECURSIVE blocks_rev(_, _)
blocks_rev(dm, k) ==
    IF k = 0 THEN <<>>
    ELSE (IF dm[k][1] = "File" THEN repeat_take(dm[k][2], dm[k][3]) ELSE <<>>)
         \o blocks_rev(dm, k - 1)

\* The ids at the front of it that pass the predicate of a take_while.
RECURSIVE passing(_, _, _)
passing(it, want_equal, id) ==
    IF it = <<>> \/ ((it[1] = id) # want_equal) THEN <<>>
    ELSE <<it[1]>> \o passing(Tail(it), want_equal, id)

\* by_ref().take(length).take_while(|id| *id != last): what extend receives,
\* and what the iterator has left.  The first id that fails the predicate is
\* taken from the iterator and dropped.
take_take_while(it, length, last) ==
    LET window == SubSeq(it, 1, IF length < Len(it) THEN length ELSE Len(it))
        got    == passing(window, FALSE, last)
        taken  == IF Len(got) < Len(window) THEN Len(got) + 1 ELSE Len(got)
    IN  [got |-> got, rest |-> SubSeq(it, taken + 1, Len(it))]

(***************************************************************************)
(* The run is given its text and parses it.                                *)
(***************************************************************************)
ReadDisk ==
    /\ day_09_pc = "start"
    /\ disk_text' \in DiskTexts
    /\ day_09_pc' = "parse"
    /\ UNCHANGED <<disk_map, next_entry, disk_image, data_blocks_rev,
                   last_processed_file_id, day_09_returned>>
    /\ UNCHANGED all_but_day_09

Day09Parse ==
    /\ day_09_pc = "parse"
    /\ disk_map' = day_09_from_str(disk_text)
    /\ day_09_pc' = IF disk_map' = None THEN "failed" ELSE "parsed"
    /\ UNCHANGED <<disk_text, next_entry, disk_image, data_blocks_rev,
                   last_processed_file_id, day_09_returned>>
    /\ UNCHANGED all_but_day_09

(***************************************************************************)
(* compact_disk, up to its loop.                                           *)
(***************************************************************************)
compact_disk ==
    /\ day_09_pc = "parsed"
    /\ disk_image' = <<>>
    /\ data_blocks_rev' = blocks_rev(disk_map[1], Len(disk_map[1]))
    /\ last_processed_file_id' = None
    /\ next_entry' = 1
    /\ day_09_pc' = "compact_disk"
    /\ UNCHANGED <<disk_text, disk_map, day_09_returned>>
    /\ UNCHANGED all_but_day_09

InCompactLoop ==
    /\ day_09_pc = "compact_disk"
    /\ day_09_returned = None
    /\ next_entry <= Len(disk_map[1])

entry == disk_map[1][next_entry]

\* What is left to do after the loop: the blocks of the file last written
\* that the iterator still holds are appended and the image returned.
compact_disk_tail(image, it, last) ==
    image \o (IF it = <<>> THEN <<>> ELSE passing(it, TRUE, last[1]))

\* A file that was not the last one written: its blocks are appended.
CompactFile ==
    /\ InCompactLoop
    /\ entry[1] = "File"
    /\ ~(last_processed_file_id # None /\ last_processed_file_id[1] = entry[2])
    /\ disk_image' = disk_image \o repeat_take(entry[2], entry[3])
    /\ last_processed_file_id' = Some(entry[2])
    /\ next_entry' = next_entry + 1
    /\ UNCHANGED <<disk_text, day_09_pc, disk_map, data_blocks_rev,
                   day_09_returned>>
    /\ UNCHANGED all_but_day_09

\* The file last written is reached: break, and the function returns.
CompactBreak ==
    /\ InCompactLoop
    /\ entry[1] = "File"
    /\ last_processed_file_id # None /\ last_processed_file_id[1] = entry[2]
    /\ day_09_returned' =
          Some(compact_disk_tail(disk_image, data_blocks_rev,
                                 last_processed_file_id))
    /\ UNCHANGED <<disk_text, day_09_pc, disk_map, next_entry, disk_image,
                   data_blocks_rev, last_processed_file_id>>
    /\ UNCHANGED all_but_day_09

\* A free space is filled from the end of the disk.
CompactFree ==
    /\ InCompactLoop
    /\ entry[1] = "FreeSpace"
    /\ LET t == take_take_while(data_blocks_rev, entry[2],
                                last_processed_file_id[1])
       IN  /\ disk_image \o t.got # <<>>
           /\ disk_image' = disk_image \o t.got
           /\ data_blocks_rev' = t.rest
           /\ last_processed_file_id' = Some(disk_image'[Len(disk_image')])
    /\ next_entry' = next_entry + 1
    /\ UNCHANGED <<disk_text, day_09_pc, disk_map, day_09_returned>>
    /\ UNCHANGED all_but_day_09

\* A free space with nothing written yet: disk_image.len() - 1 underflows, or
\* wraps and indexes out of bounds; the call panics.
CompactFreePanic ==
    /\ InCompactLoop
    /\ entry[1] = "FreeSpace"
    /\ disk_image \o take_take_while(data_blocks_rev, entry[2],
                                     last_processed_file_id[1]).got = <<>>
    /\ day_09_pc' = "panicked"
    /\ UNCHANGED <<disk_text, disk_map, next_entry, disk_image,
                   data_blocks_rev, last_processed_file_id, day_09_returned>>
    /\ UNCHANGED all_but_day_09

\* The loop ran to the end of the disk map.
CompactReturn ==
    /\ day_09_pc = "compact_disk"
    /\ day_09_returned = None
    /\ next_entry > Len(disk_map[1])
    /\ day_09_returned' =
          Some(compact_disk_tail(disk_image, data_blocks_rev,
                                 last_processed_file_id))
    /\ UNCHANGED <<disk_text, day_09_pc, disk_map, next_entry, disk_image,
                   data_blocks_rev, last_processed_file_id>>
    /\ UNCHANGED all_but_day_09

NextDay09 ==
    \/ ReadDisk
    \/ Day09Parse
    \/ compact_disk
    \/ CompactFile
    \/ CompactBreak
    \/ CompactFree
    \/ CompactFreePanic
    \/ CompactReturn

SpecDay09 == Init /\ [][NextDay09]_vars

(***************************************************************************)
(* The yardstick of the compaction.                                        *)
(***************************************************************************)
\* A block of the disk: Some(id) for a block of the file id, None for a
\* free block.
FreeBlock == None

\* The disk laid out block by block.
RECURSIVE Layout(_, _)
Layout(dm, k) ==
    IF k = 0 THEN <<>>
    ELSE Layout(dm, k - 1)
         \o (IF dm[k][1] = "File" THEN [j \in 1..dm[k][3] |-> Some(dm[k][2])]
             ELSE [j \in 1..dm[k][2] |-> FreeBlock])

\* One block at a time, the last file block is moved into the leftmost free
\* block, until no free block is left of a file block.
RECURSIVE Compacted(_)
Compacted(blocks) ==
    IF blocks = <<>> THEN blocks
    ELSE IF blocks[Len(blocks)] = FreeBlock
         THEN Compacted(SubSeq(blocks, 1, Len(blocks) - 1))
    ELSE LET gaps == {j \in 1..Len(blocks) : blocks[j] = FreeBlock}
         IN  IF gaps = {} THEN blocks
             ELSE LET g == CHOOSE j \in gaps : \A j2 \in gaps : j <= j2
                  IN  Compacted([SubSeq(blocks, 1, Len(blocks) - 1)
                                    EXCEPT ![g] = blocks[Len(blocks)]])

\* The image of the compacted disk: the file ids of its blocks.
CompactedImage(dm) ==
    LET blocks == Compacted(Layout(dm, Len(dm)))
    IN  [j \in 1..Len(blocks) |-> blocks[j][1]]

\* The sum of the file lengths.
RECURSIVE FileBlocks(_, _)
FileBlocks(dm, k) ==
    IF k = 0 THEN 0
    ELSE FileBlocks(dm, k - 1) + (IF dm[k][1] = "File" THEN dm[k][3] ELSE 0)

\* C22: for every disk map compact_disk returns the image that moving the
\* file blocks one at a time from the end of the disk into the leftmost free
\* block gives: as long as the sum of the file lengths, every file id as
\* often as the file is long.
C22_CompactDiskMovesBlocksLeft ==
    /\ day_09_pc # "panicked"
    /\ day_09_returned # None =>
          LET dm == disk_map[1]
              image == day_09_returned[1]
          IN  /\ image = CompactedImage(dm)
              /\ Len(image) = FileBlocks(dm, Len(dm))
              /\ \A k \in 1..Len(dm) :
                    dm[k][1] = "File" =>
                        Cardinality({j \in 1..Len(image) : image[j] = dm[k][2]})
                            = dm[k][3]

\* On the two disk maps of the tests compact_disk returns what
\* test_compact_disk expects.
CompactDiskOnTestInputs ==
    /\ (day_09_returned # None /\ disk_text = TEST_INPUT_1)
          => day_09_returned[1] = <<0, 2, 2, 1, 1, 1, 2, 2, 2>>
    /\ (day_09_returned # None /\ disk_text = TEST_INPUT_2)
          => /\ day_09_returned[1] =
                    <<0, 0, 9, 9, 8, 1, 1, 1, 8, 8, 8, 2, 7, 7, 7, 3, 3, 3, 6,
                      4, 4, 6, 5, 5, 5, 5, 6, 6>>
             /\ day_09_returned[1] = CompactedImage(disk_map[1])

(***************************************************************************)
(* day_03 once more: the scanner alone, behind solve_part_1, on texts put  *)
(* together from instructions, corrupted instructions and cut-off ones.    *)
(***************************************************************************)
\* Most pieces in a scanned text.
MaxPieces == 3

ScanPieces ==
    {"mul(2,4)", "mul(123,456)", "mul(1234,5)", "mul(6,7890)", "mul(,5)",
     "mul(", "mul(4", "mul(4,", "mul(4,5", "mu", "3,4)", "1", "do()",
     "don't()"}

RECURSIVE ScanTextsOf(_)
ScanTextsOf(n) ==
    IF n = 0 THEN {""}
    ELSE LET shorter == ScanTextsOf(n - 1)
         IN  shorter \cup {t \o f : t \in shorter, f \in ScanPieces}

ScanTexts == ScanTextsOf(MaxPieces)

ReadScanText ==
    /\ day_03_pc = "start"
    /\ program' \in ScanTexts
    /\ day_03_pc' = "ready"
    /\ UNCHANGED <<instructions, next_instr, mul_enabled, result,
                   day_03_returned>>
    /\ UNCHANGED all_but_day_03

\* solve_part_1: the program is scanned and the products of its Mul summed.
Day03Part1 ==
    /\ day_03_pc = "ready"
    /\ day_03_pc' = "solve_part_1"
    /\ instructions' = parse(program)
    /\ day_03_returned' = Some(sum_of_mul(instructions'))
    /\ UNCHANGED <<program, next_instr, mul_enabled, result>>
    /\ UNCHANGED all_but_day_03

NextScan == ReadProgram \/ ReadScanText \/ Day03Part1

SpecScan == Init /\ [][NextScan]_vars

(***************************************************************************)
(* The yardstick of the scanner: where in a text an instruction stands.    *)
(***************************************************************************)
\* The text t stands in s at position p.
TextAt(s, p, t) == p + Len(t) - 1 <= Len(s) /\ SubSeq(s, p, p + Len(t) - 1) = t

Digits == "0123456789"

IsDigit(c) == \E k \in 1..10 : SubSeq(Digits, k, k) = c

DigitOf(c) == (CHOOSE k \in 1..10 : SubSeq(Digits, k, k) = c) - 1

\* n characters of s from p on are decimal digits.
DigitsAt(s, p, n) ==
    /\ p + n - 1 <= Len(s)
    /\ \A k \in p..(p + n - 1) : IsDigit(SubSeq(s, k, k))

RECURSIVE Decimal(_)
Decimal(t) ==
    IF t = "" THEN 0
    ELSE DigitOf(SubSeq(t, Len(t), Len(t))) + 10 * Decimal(SubSeq(t, 1, Len(t) - 1))

\* The text mul(a,b) stands at p, a of la and b of lb digits.
MulTextAt(s, p, la, lb) ==
    /\ TextAt(s, p, "mul(")
    /\ DigitsAt(s, p + 4, la)
    /\ TextAt(s, p + 4 + la, ",")
    /\ DigitsAt(s, p + 5 + la, lb)
    /\ TextAt(s, p + 5 + la + lb, ")")

OperandLengths == {<<la, lb>> \in (1..3) \X (1..3) : TRUE}

\* The instruction whose text stands at p, if any.
InstructionAt(s, p) ==
    IF TextAt(s, p, "do()") THEN <<Do>>
    ELSE IF TextAt(s, p, "don't()") THEN <<Dont>>
    ELSE IF \E l \in OperandLengths : MulTextAt(s, p, l[1], l[2])
    THEN LET l == CHOOSE l \in OperandLengths : MulTextAt(s, p, l[1], l[2])
         IN  <<Mul(Decimal(SubSeq(s, p + 4, p + 3 + l[1])),
                   Decimal(SubSeq(s, p + 5 + l[1], p + 4 + l[1] + l[2])))>>
    ELSE <<>>

\* The instructions whose texts stand in s from p on, in the order of the
\* text.
RECURSIVE Occurring(_, _)
Occurring(s, p) ==
    IF p > Len(s) THEN <<>>
    ELSE InstructionAt(s, p) \o Occurring(s, p + 1)

Scanned == day_03_pc = "solve_part_1"

\* C23: whatever the text, the scanner returns, in the order of the text, one
\* Mul(a, b) for each place where mul(a,b) stands with a and b of one to
\* three decimal digits, and none for any other text (mul[3,7], mul(32,64],
\* an operand of four digits, a mul( cut short); a failed attempt at a mul
\* costs no instruction that follows it.
C23_ScannerFindsEveryMul ==
    Scanned =>
        /\ instructions = Occurring(program, 1)
        /\ day_03_returned = Some(sum_of_mul(Occurring(program, 1)))
        /\ program = TEST_PROGRAM_1 => day_03_returned = Some(161)

\* A mul( cut short stands right before a well-formed mul, an operand of four
\* digits after it: the one Mul comes out.
C23_Witness ==
    /\ Scanned
    /\ program = "mul(4" \o "mul(2,4)" \o "mul(1234,5)"
    /\ instructions = <<Mul(2, 4)>>

(***************************************************************************)
(* day_10 (src/day_10/src/lib.rs): the height map, score_trailhead and     *)
(* rate_trailhead.  A point is (x, y), x the row and y the column, both    *)
(* counted from 0; map[x][y] is the height, u8::MAX for ".".               *)
(***************************************************************************)
\* Most characters of the first test map that an enumerated text overwrites.
MaxEdits == 1

DAY_10_TEST_INPUT_1 == "0123\n1234\n8765\n9876"

DAY_10_TEST_INPUT_2 ==
    "89010123\n78121874\n87430965\n96549874\n" \o
    "45678903\n32019012\n01329801\n10456732"

DAY_10_TEST_INPUT_3 ==
    "1110111\n1111111\n1112111\n6543456\n7111117\n8111118\n9111119"

\* The two maps of test_rate_trailhead and the first of test_solve_part_2.
DAY_10_RATING_MAP_1 ==
    ".....0.\n..4321.\n..5..2.\n..6543.\n..7..4.\n..8765.\n..9...."

DAY_10_RATING_MAP_2 ==
    "..90..9\n...1.98\n...2..7\n6543456\n765.987\n876....\n987...."

DAY_10_RATING_MAP_3 ==
    "012345\n123456\n234567\n345678\n4.6789\n56789."

\* The characters an overwritten place takes; "x" stands for any character
\* that is neither a digit nor ".".
MapSymbols == {"0", "1", "2", "3", "4", "5", "6", "7", "8", "9", ".", "x", "\n"}

RECURSIVE EditsOf(_, _)
EditsOf(t, n) ==
    IF n = 0 THEN {t}
    ELSE LET fewer == EditsOf(t, n - 1)
         IN  fewer \cup {SubSeq(u, 1, k - 1) \o c \o SubSeq(u, k + 1, Len(u)) :
                            u \in fewer, k \in 1..Len(t), c \in MapSymbols}

MapTexts ==
    EditsOf(DAY_10_TEST_INPUT_1, MaxEdits)
    \cup {DAY_10_TEST_INPUT_2, DAY_10_TEST_INPUT_3, DAY_10_RATING_MAP_1,
          DAY_10_RATING_MAP_2, DAY_10_RATING_MAP_3}

u8_MAX == 255
\* Stands for 2^64 - 1, above every index of a map; the largest integer of
\* the model checker.
usize_MAX == 2147483647

\* Problem::from_str: Some(map), or None for Err.
day_10_from_str(s) ==
    LET ls == lines(s) IN
    IF \E x \in 1..Len(ls) : \E y \in 1..Len(ls[x]) :
          LET c == SubSeq(ls[x], y, y) IN c # "." /\ to_digit(c) = None
    THEN None
    ELSE Some([x \in 1..Len(ls) |->
                  [y \in 1..Len(ls[x]) |->
                      LET c == SubSeq(ls[x], y, y)
                      IN  IF c = "." THEN u8_MAX ELSE to_digit(c)[1]]])

\* A plausible slip: the neighbour below is left out.
neighbour_indices_without_below(x, y, max_x, max_y) ==
    SelectSeq(<<<<checked_add_signed(x, -1), Some(y)>>,
                <<Some(x), checked_add_signed(y, -1)>>,
                <<Some(x), Some(y + 1)>>>>,
              LAMBDA n : /\ n[1] # None /\ n[2] # None
                         /\ n[1][1] <= max_x /\ n[2][1] <= max_y)

\* neighbour_indices: the points above, left, below and right, in this
\* order, those with both coordinates from 0 to max_x and max_y; each is a
\* pair of Options here, Some on both sides.
neighbour_indices(x, y, max_x, max_y) ==
    SelectSeq(<<<<checked_add_signed(x, -1), Some(y)>>,
                <<Some(x), checked_add_signed(y, -1)>>,
                <<Some(x + 1), Some(y)>>,
                <<Some(x), Some(y + 1)>>>>,
              LAMBDA n : /\ n[1] # None /\ n[2] # None
                         /\ n[1][1] <= max_x /\ n[2][1] <= max_y)

\* The neighbours as points.
neighbours_of(x, y, max_x, max_y) ==
    LET ns == neighbour_indices(x, y, max_x, max_y)
    IN  [k \in 1..Len(ns) |-> <<ns[k][1][1], ns[k][2][1]>>]

\* map[x][y] is there to be read; the index panics otherwise.
in_bounds(m, n) == n[1] < Len(m) /\ n[2] < Len(m[n[1] + 1])

\* map[n.0][n.1]
height_at(m, n) == m[n[1] + 1][n[2] + 1]

\* The while loop of score_trailhead: Some(peaks.len()), or None when an
\* index panics.
RECURSIVE score_loop(_, _, _, _, _, _)
score_loop(m, q, visited, peaks, max_x, max_y) ==
    IF q = <<>> THEN Some(Cardinality(peaks))
    ELSE LET p == Head(q) IN
         IF p \in visited
         THEN score_loop(m, Tail(q), visited, peaks, max_x, max_y)
         ELSE LET seen == visited \cup {p}
                  height == height_at(m, p)
              IN  IF height = 9
                  THEN score_loop(m, Tail(q), seen, peaks \cup {p}, max_x, max_y)
                  ELSE LET ns == neighbours_of(p[1], p[2], max_x, max_y)
                       IN  IF \E k \in 1..Len(ns) : ~in_bounds(m, ns[k])
                           THEN None
                           ELSE score_loop(m,
                                    Tail(q) \o SelectSeq(ns, LAMBDA n :
                                        /\ height_at(m, n) = height + 1
                                        /\ n \notin seen),
                                    seen, peaks, max_x, max_y)

\* The sum of the ratings in rs; None when one of them is None.
RECURSIVE sum_of(_)
sum_of(rs) ==
    IF rs = <<>> THEN Some(0)
    ELSE LET rest == sum_of(Tail(rs))
         IN  IF Head(rs) = None \/ rest = None THEN None
             ELSE Some(Head(rs)[1] + rest[1])

\* rate_trailhead with max_x and max_y as the call computes them: Some(the
\* sum), or None when an index panics.
RECURSIVE rate_from(_, _, _, _)
rate_from(m, p, max_x, max_y) ==
    LET height == height_at(m, p) IN
    IF height = 9 THEN Some(1)
    ELSE LET ns == neighbours_of(p[1], p[2], max_x, max_y)
         IN  IF \E k \in 1..Len(ns) : ~in_bounds(m, ns[k]) THEN None
             ELSE LET valid_neighbours ==
                          SelectSeq(ns, LAMBDA n : height_at(m, n) = height + 1)
                  IN  sum_of([k \in 1..Len(valid_neighbours) |->
                                 rate_from(m, valid_neighbours[k], max_x, max_y)])

\* map[0].len() - 1: on an empty first row the subtraction panics in a build
\* with overflow checks (None) and wraps in one without.
max_y_of(m) ==
    IF Len(m[1]) > 0 THEN {Some(Len(m[1]) - 1)}
    ELSE {None, Some(usize_MAX)}

(***************************************************************************)
(* The run is given its text, parses it and picks a starting point of      *)
(* height 0, as solve_part_1 and solve_part_2 do.                          *)
(***************************************************************************)
ReadMap ==
    /\ day_10_pc = "start"
    /\ map_text' \in MapTexts
    /\ day_10_pc' = "parse"
    /\ UNCHANGED <<map, starting_point, score, rating>>
    /\ UNCHANGED all_but_day_10

Day10Parse ==
    /\ day_10_pc = "parse"
    /\ map' = day_10_from_str(map_text)
    /\ day_10_pc' = IF map' = None THEN "failed" ELSE "parsed"
    /\ UNCHANGED <<map_text, starting_point, score, rating>>
    /\ UNCHANGED all_but_day_10

PickTrailhead ==
    /\ day_10_pc = "parsed"
    /\ \E x \in 0..(Len(map[1]) - 1) :
          \E y \in 0..(Len(map[1][x + 1]) - 1) :
             /\ map[1][x + 1][y + 1] = 0
             /\ starting_point' = <<x, y>>
    /\ day_10_pc' = "trailhead"
    /\ UNCHANGED <<map_text, map, score, rating>>
    /\ UNCHANGED all_but_day_10

\* The call of score_trailhead, from its first line to its return or panic.
score_trailhead ==
    /\ day_10_pc = "trailhead"
    /\ \E max_y \in max_y_of(map[1]) :
          LET max_x == Len(map[1]) - 1
              r == IF max_y = None THEN None
                   ELSE score_loop(map[1], <<starting_point>>, {}, {},
                                   max_x, max_y[1])
          IN  /\ score' = r
              /\ day_10_pc' = IF r = None THEN "panicked" ELSE "scored"
    /\ UNCHANGED <<map_text, map, starting_point, rating>>
    /\ UNCHANGED all_but_day_10

\* The call of rate_trailhead on the same starting point.
rate_trailhead ==
    /\ day_10_pc = "scored"
    /\ \E max_y \in max_y_of(map[1]) :
          LET max_x == Len(map[1]) - 1
              r == IF max_y = None THEN None
                   ELSE rate_from(map[1], starting_point, max_x, max_y[1])
          IN  /\ rating' = r
              /\ day_10_pc' = IF r = None THEN "panicked" ELSE "rated"
    /\ UNCHANGED <<map_text, map, starting_point, score>>
    /\ UNCHANGED all_but_day_10

NextDay10 ==
    \/ ReadMap
    \/ Day10Parse
    \/ PickTrailhead
    \/ score_trailhead
    \/ rate_trailhead

SpecDay10 == Init /\ [][NextDay10]_vars

(***************************************************************************)
(* The yardstick of the trails: a trail climbs by 1 with every step to a   *)
(* cell next to it in its row or column.                                   *)
(***************************************************************************)
\* Every row of m is as long as the first, and there is a cell.
RectangularMap(m) ==
    /\ Len(m) > 0
    /\ Len(m[1]) > 0
    /\ \A x \in 1..Len(m) : Len(m[x]) = Len(m[1])

CellsOf(m) == {<<x, y>> \in (0..(Len(m) - 1)) \X (0..(Len(m[1]) - 1)) : TRUE}

HeightOf(m, c) == m[c[1] + 1][c[2] + 1]

\* The four cells next to c, on the map or off it.
Around(c) ==
    {<<c[1] - 1, c[2]>>, <<c[1] + 1, c[2]>>, <<c[1], c[2] - 1>>,
     <<c[1], c[2] + 1>>}

\* A trail from start ends in c at height k.
RECURSIVE Climbs(_, _, _, _)
Climbs(m, start, c, k) ==
    /\ c \in CellsOf(m)
    /\ HeightOf(m, c) = k
    /\ IF k = 0 THEN c = start
       ELSE \E d \in Around(c) : Climbs(m, start, d, k - 1)

\* The peaks a trail from start reaches.
Reached(m, start) == {c \in CellsOf(m) : Climbs(m, start, c, 9)}

\* The number of trails from start that end in c at height k.
RECURSIVE Trails(_, _, _, _)
Trails(m, start, c, k) ==
    IF c \notin CellsOf(m) \/ HeightOf(m, c) # k THEN 0
    ELSE IF k = 0 THEN (IF c = start THEN 1 ELSE 0)
    ELSE Trails(m, start, <<c[1] - 1, c[2]>>, k - 1)
         + Trails(m, start, <<c[1] + 1, c[2]>>, k - 1)
         + Trails(m, start, <<c[1], c[2] - 1>>, k - 1)
         + Trails(m, start, <<c[1], c[2] + 1>>, k - 1)

RECURSIVE TrailsToAll(_, _, _)
TrailsToAll(m, start, peaks) ==
    IF peaks = {} THEN 0
    ELSE LET c == CHOOSE c \in peaks : TRUE
         IN  Trails(m, start, c, 9) + TrailsToAll(m, start, peaks \ {c})

TrailheadsOnTestInputs ==
    /\ (day_10_pc \in {"scored", "rated"} /\ map_text = DAY_10_TEST_INPUT_3
           /\ starting_point = <<0, 3>>) => score = Some(2)
    /\ (day_10_pc = "rated" /\ map_text = DAY_10_RATING_MAP_1
           /\ starting_point = <<0, 5>>) => rating = Some(3)
    /\ (day_10_pc = "rated" /\ map_text = DAY_10_RATING_MAP_2
           /\ starting_point = <<0, 3>>) => rating = Some(13)
    /\ (day_10_pc = "rated" /\ map_text = DAY_10_RATING_MAP_3)
           => rating = Some(227)

(***************************************************************************)
(* day_06 once more: the two walks side by side.                           *)
(***************************************************************************)
\* All runs of day_06, each of the two loops running on while it has an
\* iteration to run.
SpecBothWalks ==
    Init /\ [][Next]_vars /\ WF_vars(WalkMazeStep) /\ WF_vars(LoopCheckStep)

\* A call of either walk from the start facing Up is in its loop.
WalkingFromUp ==
    \/ Running("walk_maze")
    \/ Running(LoopCheck) /\ starting_direction = "Up"

\* The (position, facing) state of the running call.
GuardState == <<current_position, movement_direction>>

\* Either walk starts in the state (start, Up).
StartsAtStartFacingUp ==
    (pc = "parsed" /\ WalkingFromUp')
        => GuardState' = <<P.starting_position, "Up">>

\* An iteration of either walk takes the state to the one state the
\* Movement Model gives for it; the walk returns without moving, walk_maze
\* when that state is off the grid, the loop check then too or at a
\* collision.
StepsAlike ==
    WalkingFromUp =>
        LET n == GuardStep(GuardState, obstacles, P.map_height, P.map_width)
        IN  IF returned' = None THEN GuardState' = n
            ELSE /\ GuardState' = GuardState
                 /\ \/ n = <<>>
                    \/ /\ pc = LoopCheck
                       /\ returned' = Some(TRUE)
                       /\ n = <<current_position, Clockwise[movement_direction]>>

\* C25: on the same grid, obstacle set and start, walk_maze and
\* walk_maze_and_check_for_loop called with Up pass through the same
\* (position, facing) states in the same order, for as long as the loop
\* check runs; walk_maze returns on the inputs for which the loop check
\* returns false, and on no others.
C25_WalksPassThroughTheSameStates ==
    /\ [][StartsAtStartFacingUp /\ StepsAlike]_vars
    /\ [](Returned(LoopCheck) =>
             returned = Some(walk_maze_and_check_for_loop(
                                 obstacles, P.starting_position,
                                 starting_direction)))
    /\ [](Returned("walk_maze") =>
             ~walk_maze_and_check_for_loop(obstacles, P.starting_position, "Up"))
    /\ (/\ pc = "walk_maze"
        /\ ~walk_maze_and_check_for_loop(obstacles, P.starting_position, "Up"))
           ~> Returned("walk_maze")

\* walk_maze has returned after a turn, on a grid other than the sample, on
\* which the loop check returns false.
C25_Witness ==
    /\ Returned("walk_maze")
    /\ input # TEST_INPUT
    /\ movement_direction = "Right"
    /\ Cardinality(visited_spaces) >= 3
    /\ ~walk_maze_and_check_for_loop(obstacles, P.starting_position, "Up")

====
